---- MODULE Spec2Model ----
(***************************************************************************)
(* A model of the seal validation library (kurai-foundation/seal).         *)
(*                                                                         *)
(* The state is the heap of schema instances a client has built (every     *)
(* schema is a mutable builder, referred to by its position in the heap)   *)
(* and the record of the last API call.  One action per public operation:  *)
(* the primitive constructors, the chain calls, the wrappers, the object   *)
(* and combinator constructors, and Seal.validate.                         *)
(*                                                                         *)
(* JavaScript values are tagged records.  Numbers are kept in half units   *)
(* (h = 5 is 2.5) so that non-integers exist; a call that aborts with a    *)
(* TypeError is an outcome of validation (threw = TRUE), never left out.   *)
(* Object inputs are plain objects whose own keys are drawn from a set     *)
(* that shares no name with Object.prototype, so that `key in input` is    *)
(* membership among the own keys.                                          *)
(***************************************************************************)
EXTENDS Integers, Sequences, FiniteSets, TLC

VARIABLES heap, last

vars == <<heap, last>>

(***************************************************************************)
(* JavaScript values                                                       *)
(***************************************************************************)
Undefined == [t |-> "undefined"]

Null == [t |-> "null"]

Bool(b) == [t |-> "boolean", b |-> b]

\* A finite number, in half units.
Num(h) == [t |-> "number", h |-> h, sp |-> "fin"]

\* The integer n.
Int2(n) == Num(2 * n)

NaN == [t |-> "number", h |-> 0, sp |-> "NaN"]

Infinity == [t |-> "number", h |-> 0, sp |-> "Infinity"]

Str(s) == [t |-> "string", s |-> s]

Arr(items) == [t |-> "array", items |-> items]

\* A plain object: o is a function from its own keys to their values.
Obj(o) == [t |-> "object", o |-> o]

EmptyObj == Obj([k \in {} |-> Undefined])

\* A Date object: its time value, a number (NaN for an invalid date), and what
\* toISOString() returns for it.
DateOf(time, iso) == [t |-> "date", time |-> time, iso |-> iso]

\* typeof v
TypeOf(v) ==
  CASE v.t = "undefined" -> "undefined"
    [] v.t = "null" -> "object"
    [] v.t = "boolean" -> "boolean"
    [] v.t = "number" -> "number"
    [] v.t = "string" -> "string"
    [] v.t = "array" -> "object"
    [] v.t = "object" -> "object"
    [] v.t = "date" -> "object"

\* Array.isArray(v)
IsArray(v) == v.t = "array"

Abs(n) == IF n < 0 THEN -n ELSE n

\* String(x) of a number.
NumToStr(v) ==
  IF v.sp # "fin" THEN v.sp
  ELSE IF v.h % 2 = 0 THEN ToString(v.h \div 2)
  ELSE (IF v.h < 0 THEN "-" ELSE "") \o ToString(Abs(v.h) \div 2) \o ".5"

RECURSIVE ToStr(_)
RECURSIVE JoinFrom(_, _)
\* items.join(","), from index i on: null and undefined elements are empty.
JoinFrom(items, i) ==
  IF i > Len(items) THEN ""
  ELSE (IF items[i].t \in {"undefined", "null"} THEN "" ELSE ToStr(items[i]))
       \o (IF i < Len(items) THEN "," ELSE "")
       \o JoinFrom(items, i + 1)

\* `${ v }`: the string conversion of a template literal.
ToStr(v) ==
  CASE v.t = "undefined" -> "undefined"
    [] v.t = "null" -> "null"
    [] v.t = "boolean" -> (IF v.b THEN "true" ELSE "false")
    [] v.t = "number" -> NumToStr(v)
    [] v.t = "string" -> v.s
    [] v.t = "array" -> JoinFrom(v.items, 1)
    [] v.t = "object" -> "[object Object]"

(***************************************************************************)
(* Strings: the operations of String.prototype the rules use, computed on  *)
(* the characters.                                                         *)
(***************************************************************************)
CharAt(s, i) == SubSeq(s, i, i)

Digits == {"0", "1", "2", "3", "4", "5", "6", "7", "8", "9"}

LowerAlphabet == "abcdefghijklmnopqrstuvwxyz"

UpperAlphabet == "ABCDEFGHIJKLMNOPQRSTUVWXYZ"

\* The letters of an alphabet, as a set of characters.
Letters(alphabet) == {CharAt(alphabet, i) : i \in 1..Len(alphabet)}

WhiteSpace == {" "}

RECURSIVE MapChars(_, _, _, _)
\* s from position i on, each letter of alphabet from replaced by the one of to.
MapChars(s, i, from, to) ==
  IF i > Len(s) THEN ""
  ELSE LET c == CharAt(s, i)
       IN (IF c \in Letters(from)
           THEN CharAt(to, CHOOSE n \in 1..Len(from) : CharAt(from, n) = c)
           ELSE c)
          \o MapChars(s, i + 1, from, to)

ToLowerCase(s) == MapChars(s, 1, UpperAlphabet, LowerAlphabet)

ToUpperCase(s) == MapChars(s, 1, LowerAlphabet, UpperAlphabet)

RECURSIVE TrimStart(_)
TrimStart(s) ==
  IF Len(s) > 0 /\ CharAt(s, 1) \in WhiteSpace
  THEN TrimStart(SubSeq(s, 2, Len(s))) ELSE s

RECURSIVE TrimEnd(_)
TrimEnd(s) ==
  IF Len(s) > 0 /\ CharAt(s, Len(s)) \in WhiteSpace
  THEN TrimEnd(SubSeq(s, 1, Len(s) - 1)) ELSE s

Trim(s) == TrimEnd(TrimStart(s))

StartsWith(s, p) == Len(p) <= Len(s) /\ SubSeq(s, 1, Len(p)) = p

EndsWith(s, p) ==
  Len(p) <= Len(s) /\ SubSeq(s, Len(s) - Len(p) + 1, Len(s)) = p

Includes(s, p) ==
  \E i \in 1..(Len(s) - Len(p) + 1) : SubSeq(s, i, i + Len(p) - 1) = p

(***************************************************************************)
(* Regular expressions: a pattern is a tree, and Ends(re, s, i) is the set *)
(* of positions at which a match of re that starts at position i of s may  *)
(* end, which is what a backtracking matcher explores.                     *)
(***************************************************************************)
ReSet(cs) == [k |-> "set", cs |-> cs, neg |-> FALSE]

ReNot(cs) == [k |-> "set", cs |-> cs, neg |-> TRUE]

ReSeq(xs) == [k |-> "seq", xs |-> xs]

ReAlt(xs) == [k |-> "alt", xs |-> xs]

\* x{lo,hi}; hi = -1 is no upper limit.
ReRep(x, lo, hi) == [k |-> "rep", x |-> x, lo |-> lo, hi |-> hi]

ReBol == [k |-> "bol"]

ReEol == [k |-> "eol"]

RECURSIVE Ends(_, _, _)
RECURSIVE SeqEnds(_, _, _, _)
RECURSIVE RepEnds(_, _, _, _, _)
\* The positions after xs[j], xs[j+1], ... matched in turn from a position of from.
SeqEnds(xs, j, s, from) ==
  IF j > Len(xs) \/ from = {} THEN from
  ELSE SeqEnds(xs, j + 1, s, UNION {Ends(xs[j], s, p) : p \in from})

\* The positions after n or more matches of re.x (n <= re.hi), given those after n.
RepEnds(re, s, after, n, seen) ==
  LET here == IF n >= re.lo THEN after ELSE {}
      fresh == after \ seen
  IN IF fresh = {} \/ (re.hi >= 0 /\ n >= re.hi) THEN here
     ELSE here \cup RepEnds(re, s, UNION {Ends(re.x, s, p) : p \in fresh},
                            n + 1, IF n >= re.lo THEN seen \cup after ELSE seen)

Ends(re, s, i) ==
  CASE re.k = "set" ->
         IF i <= Len(s) /\ ((CharAt(s, i) \in re.cs) # re.neg) THEN {i + 1} ELSE {}
    [] re.k = "bol" -> IF i = 1 THEN {i} ELSE {}
    [] re.k = "eol" -> IF i = Len(s) + 1 THEN {i} ELSE {}
    [] re.k = "seq" -> SeqEnds(re.xs, 1, s, {i})
    [] re.k = "alt" -> UNION {Ends(re.xs[j], s, i) : j \in 1..Len(re.xs)}
    [] re.k = "rep" -> RepEnds(re, s, {i}, 0, {})

\* re.test(s) of a pattern without the g or y flag: a match from any position.
ReTest(re, s) == \E i \in 1..(Len(s) + 1) : Ends(re, s, i) # {}

\* re.test(s) of the RegExp object rx whose lastIndex is lastIndex: with the g flag
\* the search starts at lastIndex, which is left at the end of the match, and at
\* 0 when there is none; without it lastIndex is neither read nor written.  A
\* pattern with the g flag is literal text here, so its match has one end.
ReExec(rx, s, lastIndex) ==
  LET global == rx.flags = "g"
      hits == {i \in ((IF global THEN lastIndex ELSE 0) + 1)..(Len(s) + 1) :
                 Ends(rx.re, s, i) # {}}
      first == CHOOSE i \in hits : \A j \in hits : i <= j
  IN IF hits = {} THEN [found |-> FALSE, lastIndex |-> IF global THEN 0 ELSE lastIndex]
     ELSE [found |-> TRUE,
           lastIndex |-> IF global THEN (CHOOSE e \in Ends(rx.re, s, first) : TRUE) - 1
                         ELSE lastIndex]

\* The RegExp object of a source text: its tree and its flags.  The sources are
\* those of StringSchema's format helpers, /^foo/, the client pattern of the
\* repository's test, and /foo/g, a client pattern with the g flag; the i flag is
\* written out in the character sets.
RegExp(source) ==
  LET Char(c) == ReSet({c})
      Letter == Letters(LowerAlphabet) \cup Letters(UpperAlphabet)
      Hex == Digits \cup {"a", "b", "c", "d", "e", "f", "A", "B", "C", "D", "E", "F"}
      D(n) == ReRep(ReSet(Digits), n, n)
      H(n) == ReRep(ReSet(Hex), n, n)
      Part == ReRep(ReNot(WhiteSpace \cup {"@"}), 1, -1)
  IN CASE source = "^foo" ->
            [re |-> ReSeq(<<ReBol, Char("f"), Char("o"), Char("o")>>), flags |-> ""]
       [] source = "foo" ->
            [re |-> ReSeq(<<Char("f"), Char("o"), Char("o")>>), flags |-> "g"]
       [] source = "^[a-zA-Z0-9]+$" ->
            [re |-> ReSeq(<<ReBol, ReRep(ReSet(Digits \cup Letter), 1, -1), ReEol>>),
             flags |-> ""]
       [] source = "^[^\\s@]+@[^\\s@]+\\.[^\\s@]+$" ->
            [re |-> ReSeq(<<ReBol, Part, Char("@"), Part, Char("."), Part, ReEol>>),
             flags |-> ""]
       [] source = "^[0-9a-f]{8}-[0-9a-f]{4}-[1-5][0-9a-f]{3}-[89ab][0-9a-f]{3}-[0-9a-f]{12}$" ->
            [re |-> ReSeq(<<ReBol, H(8), Char("-"), H(4), Char("-"),
                            ReSet({"1", "2", "3", "4", "5"}), H(3), Char("-"),
                            ReSet({"8", "9", "a", "b", "A", "B"}), H(3), Char("-"),
                            H(12), ReEol>>),
             flags |-> "i"]
       [] source = "^(?:\\d{1,3}\\.){3}\\d{1,3}$|^[0-9a-f:]+$" ->
            [re |-> ReAlt(<<ReSeq(<<ReBol,
                                    ReRep(ReSeq(<<ReRep(ReSet(Digits), 1, 3), Char(".")>>), 3, 3),
                                    ReRep(ReSet(Digits), 1, 3), ReEol>>),
                            ReSeq(<<ReBol, ReRep(ReSet(Hex \cup {":"}), 1, -1), ReEol>>)>>),
             flags |-> "i"]
       [] source = "^\\d{4}-\\d{2}-\\d{2}$" ->
            [re |-> ReSeq(<<ReBol, D(4), Char("-"), D(2), Char("-"), D(2), ReEol>>),
             flags |-> ""]
       [] source = "^\\d{4}-\\d{2}-\\d{2}T\\d{2}:\\d{2}:\\d{2}(?:\\.\\d+)?Z?$" ->
            [re |-> ReSeq(<<ReBol, D(4), Char("-"), D(2), Char("-"), D(2), Char("T"),
                            D(2), Char(":"), D(2), Char(":"), D(2),
                            ReRep(ReSeq(<<Char("."), ReRep(ReSet(Digits), 1, -1)>>), 0, 1),
                            ReRep(Char("Z"), 0, 1), ReEol>>),
             flags |-> ""]

\* safeUrl(url) !== null: new URL(url) accepts an absolute URL, one that starts
\* with a scheme; a special scheme (http) needs a host after it.
SafeUrlOk(s) ==
  LET Letter == Letters(LowerAlphabet) \cup Letters(UpperAlphabet)
      scheme == ReSeq(<<ReBol, ReSet(Letter),
                        ReRep(ReSet(Letter \cup Digits \cup {"+", "-", "."}), 0, -1),
                        ReSet({":"})>>)
      httpNoHost == ReSeq(<<ReBol, ReSet({"h"}), ReSet({"t"}), ReSet({"t"}), ReSet({"p"}),
                            ReSet({":"}), ReRep(ReSet({"/"}), 0, -1), ReEol>>)
  IN ReTest(scheme, s) /\ ~ReTest(httpNoHost, s)

(***************************************************************************)
(* Numbers: conversion and comparison as the relational operators do them. *)
(***************************************************************************)
RECURSIVE DigitsValue(_, _)
\* The value of the decimal digits s[1..i].
DigitsValue(s, i) ==
  IF i = 0 THEN 0
  ELSE 10 * DigitsValue(s, i - 1)
       + (CHOOSE d \in 0..9 : ToString(d) = CharAt(s, i))

\* Number(s) of a string: blank is 0, decimal digits are their value, the rest NaN.
StrToNum(s) ==
  LET t == Trim(s)
  IN IF t = "" THEN Int2(0)
     ELSE IF \A i \in 1..Len(t) : CharAt(t, i) \in Digits THEN Int2(DigitsValue(t, Len(t)))
     ELSE NaN

\* ToNumber(v), after ToPrimitive for an array or an object.
ToNumber(v) ==
  CASE v.t = "undefined" -> NaN
    [] v.t = "null" -> Int2(0)
    [] v.t = "boolean" -> (IF v.b THEN Int2(1) ELSE Int2(0))
    [] v.t = "number" -> v
    [] v.t = "string" -> StrToNum(v.s)
    [] v.t = "array" -> StrToNum(ToStr(v))
    [] v.t = "object" -> NaN

\* x < y and x <= y of two numbers: false when either is NaN.
NumLt(x, y) ==
  /\ x.sp # "NaN" /\ y.sp # "NaN"
  /\ \/ x.sp = "fin" /\ y.sp = "fin" /\ x.h < y.h
     \/ x.sp = "fin" /\ y.sp = "Infinity"

NumLe(x, y) ==
  /\ x.sp # "NaN" /\ y.sp # "NaN"
  /\ \/ x.sp = "fin" /\ y.sp = "fin" /\ x.h <= y.h
     \/ y.sp = "Infinity"

\* Number.isFinite(v) and Number.isInteger(v): no conversion, a number or false.
IsFinite(v) == v.t = "number" /\ v.sp = "fin"

IsInteger(v) == IsFinite(v) /\ v.h % 2 = 0

\* v % base === 0, base an integer.
IsMultiple(v, base) ==
  LET x == ToNumber(v)
  IN x.sp = "fin" /\ base # 0 /\ x.h % (2 * Abs(base)) = 0

RECURSIVE Pow10(_)
Pow10(n) == IF n <= 0 THEN 1 ELSE 10 * Pow10(n - 1)

\* Number.isInteger(v * factor), factor an integer.
IsIntegerTimes(v, factor) == IsFinite(v) /\ (v.h * factor) % 2 = 0

\* list.includes(x): SameValueZero, so NaN is found; an array or an object is found
\* by identity only, and no input is the very object a schema was given.
SameValueZero(a, b) == a.t \notin {"array", "object"} /\ a = b

ListIncludes(list, x) == \E i \in 1..Len(list) : SameValueZero(list[i], x)

\* new Set(items).size
DistinctCount(items) ==
  Cardinality({i \in 1..Len(items) :
                 \A j \in 1..(i - 1) : ~SameValueZero(items[j], items[i])})

(***************************************************************************)
(* Dates.  The time value of a day is written as the number yyyymmdd,      *)
(* which orders the days as their time values do.                          *)
(***************************************************************************)
\* new Date(text): the date-only form YYYY-MM-DD, with a month of the year and a
\* day every month has, is that day at midnight UTC; text of no date form is an
\* invalid date.
NewDate(text) ==
  LET Field(from, to) == DigitsValue(SubSeq(text, from, to), to - from + 1)
  IN IF /\ ReTest(RegExp("^\\d{4}-\\d{2}-\\d{2}$").re, text)
        /\ Field(6, 7) \in 1..12
        /\ Field(9, 10) \in 1..28
     THEN DateOf(Int2(10000 * Field(1, 4) + 100 * Field(6, 7) + Field(9, 10)),
                 text \o "T00:00:00.000Z")
     ELSE DateOf(NaN, "")

\* A conversion that returns the date it is given or has parsed, valid or not.
ToDateUnchecked(d) == IF d.t = "date" THEN d ELSE NewDate(d.s)

\* toDate(d): the Date, or null for an invalid one.
ToDate(d) ==
  LET parsed == IF d.t = "date" THEN d ELSE NewDate(d.s)
  IN IF parsed.time.sp = "NaN" THEN Null ELSE parsed

(***************************************************************************)
(* Rules: a rule is the closure a chain call pushes, kept as its name and  *)
(* the parameters it closed over.  RuleEval is its call on an input.       *)
(***************************************************************************)
Rule(op, n, m, s, vals) == [op |-> op, n |-> n, m |-> m, s |-> s, vals |-> vals]

\* The rule returned [ok, msg].
Returned(ok, msg) == [pass |-> ok, msg |-> msg, threw |-> FALSE]

\* The rule aborted with a TypeError.
Aborted == [pass |-> FALSE, msg |-> "", threw |-> TRUE]

\* v.length of a value that has one; undefined otherwise.
HasLength(v) == v.t \in {"string", "array"}

LengthOf(v) == IF v.t = "string" THEN Len(v.s) ELSE Len(v.items)

\* A rule that compares v.length: a TypeError on null and undefined, and a
\* comparison with undefined (false) on a value without a length.
LengthRule(v, ok, msg) ==
  IF v.t \in {"undefined", "null"} THEN Aborted
  ELSE Returned(HasLength(v) /\ ok, msg)

\* A rule that calls a method of String.prototype on v: a TypeError on anything
\* but a string.
StringRule(v, ok, msg) == IF v.t = "string" THEN Returned(ok, msg) ELSE Aborted

\* The call rule(input) of a rule of schema self.
RuleEval(self, rule, v) ==
  CASE rule.op = "isBoolean" ->
         Returned(TypeOf(v) = "boolean", TypeOf(v) \o " is not a boolean")
    [] rule.op = "valid" ->
         Returned(ListIncludes(rule.vals, v), ToStr(v) \o " is not allowed")
    [] rule.op = "invalid" ->
         Returned(~ListIncludes(rule.vals, v), ToStr(v) \o " is not allowed")
    [] rule.op = "isNumber" ->
         Returned(TypeOf(v) = "number" /\ IsFinite(v),
                  ToStr(v) \o " is not a valid integer number")
    [] rule.op = "float" -> Returned(~IsInteger(v), "shall not be an integer")
    [] rule.op = "integer" -> Returned(IsInteger(v), "shall be an integer")
    [] rule.op = "gte" ->
         Returned(NumLe(Int2(rule.n), ToNumber(v)),
                  "shall be greater than or equal to " \o ToString(rule.n))
    [] rule.op = "lte" ->
         Returned(NumLe(ToNumber(v), Int2(rule.n)),
                  "shall be less than or equal to " \o ToString(rule.n))
    [] rule.op = "gt" ->
         Returned(NumLt(Int2(rule.n), ToNumber(v)),
                  "shall be greater than " \o ToString(rule.n))
    [] rule.op = "lt" ->
         Returned(NumLt(ToNumber(v), Int2(rule.n)),
                  "shall be less than " \o ToString(rule.n))
    [] rule.op = "multiple" ->
         Returned(IsMultiple(v, rule.n), "shall be a multiple of " \o ToString(rule.n))
    [] rule.op = "precision" ->
         Returned(IsIntegerTimes(v, Pow10(rule.n)),
                  "shall be accurate to " \o ToString(Pow10(rule.n)))
    [] rule.op = "isString" ->
         Returned(TypeOf(v) = "string", "type " \o TypeOf(v) \o " is not a string")
    [] rule.op = "notEmpty" ->
         IF self.canBeEmpty THEN Returned(TRUE, "empty strings are not allowed")
         ELSE StringRule(v, v.t = "string" /\ Len(Trim(v.s)) # 0,
                         "empty strings are not allowed")
    [] rule.op = "minLength" ->
         LengthRule(v, HasLength(v) /\ LengthOf(v) >= rule.n,
                    "should be longer than " \o ToString(rule.n - 1) \o " symbols")
    [] rule.op = "maxLength" ->
         LengthRule(v, HasLength(v) /\ LengthOf(v) <= rule.n,
                    "should be shorter than " \o ToString(rule.n + 1) \o " symbols")
    [] rule.op = "length" ->
         LengthRule(v, HasLength(v) /\ LengthOf(v) = rule.n,
                    "should be " \o ToString(rule.n) \o " symbols long")
    [] rule.op = "lengthRange" ->
         LengthRule(v, HasLength(v) /\ LengthOf(v) >= rule.n /\ LengthOf(v) <= rule.m,
                    "should be longer than " \o ToString(rule.n)
                      \o " symbols and shorter than " \o ToString(rule.m))
    [] rule.op = "pattern" ->
         Returned(ReExec(RegExp(rule.s), ToStr(v), rule.n).found, "should match " \o rule.s)
    [] rule.op = "startsWith" ->
         StringRule(v, v.t = "string" /\ StartsWith(v.s, rule.s),
                    "should start with " \o rule.s)
    [] rule.op = "endsWith" ->
         StringRule(v, v.t = "string" /\ EndsWith(v.s, rule.s),
                    "should end with " \o rule.s)
    [] rule.op = "includes" ->
         IF v.t = "array"
         THEN Returned(ListIncludes(v.items, Str(rule.s)), "should include " \o rule.s)
         ELSE StringRule(v, v.t = "string" /\ Includes(v.s, rule.s),
                         "should include " \o rule.s)
    [] rule.op = "trim" ->
         StringRule(v, v.t = "string" /\ v.s = Trim(v.s), "should be trimmed")
    [] rule.op = "lowercase" ->
         StringRule(v, v.t = "string" /\ v.s = ToLowerCase(v.s), "should be lowercase")
    [] rule.op = "uppercase" ->
         StringRule(v, v.t = "string" /\ v.s = ToUpperCase(v.s), "should be uppercase")
    [] rule.op = "uri" -> Returned(SafeUrlOk(ToStr(v)), "should be a valid url")
    [] rule.op = "minItems" ->
         LengthRule(v, HasLength(v) /\ LengthOf(v) >= rule.n,
                    "shall contain at least " \o ToString(rule.n) \o " items")
    [] rule.op = "maxItems" ->
         LengthRule(v, HasLength(v) /\ LengthOf(v) <= rule.n,
                    "shall contain less than " \o ToString(rule.n + 1) \o " items")
    [] rule.op = "uniqueItems" ->
         IF v.t = "array"
         THEN Returned(DistinctCount(v.items) = Len(v.items), "shall contain only unique items")
         ELSE Aborted
    [] rule.op = "validItems" ->
         IF v.t = "array"
         THEN Returned(\A i \in 1..Len(v.items) : ListIncludes(rule.vals, v.items[i]),
                       "some of provided values are not allowed")
         ELSE Aborted
    [] rule.op = "invalidItems" ->
         IF v.t = "array"
         THEN Returned(~\E i \in 1..Len(v.items) : ListIncludes(rule.vals, v.items[i]),
                       "some of provided values are not allowed")
         ELSE Aborted
    [] rule.op = "isDate" ->
         Returned(v.t = "date" /\ v.time.sp # "NaN", TypeOf(v) \o " is not a valid date")
    [] rule.op = "minDate" ->
         Returned(NumLe(rule.vals[1].time, IF v.t = "date" THEN v.time ELSE ToNumber(v)),
                  "shall be greater than or equal to " \o rule.vals[1].iso)
    [] rule.op = "maxDate" ->
         Returned(NumLe(IF v.t = "date" THEN v.time ELSE ToNumber(v), rule.vals[1].time),
                  "shall be less than or equal to " \o rule.vals[1].iso)

\* The rule after the call rule(input): the RegExp object a pattern rule closed
\* over keeps its lastIndex (rule.n) from one call to the next.
RuleLeft(rule, v) ==
  IF rule.op = "pattern"
  THEN [rule EXCEPT !.n = ReExec(RegExp(rule.s), ToStr(v), rule.n).lastIndex]
  ELSE rule

(***************************************************************************)
(* Schema instances.  heap[r] is the instance with reference r; a child is *)
(* held by reference, so that a later chain call on it is seen through     *)
(* every schema that holds it.                                             *)
(***************************************************************************)
NoList == [on |-> FALSE, vals |-> <<>>]

\* new CoreSchema(type, initialRules, descriptor): the fields of every class of the
\* hierarchy, those of the subclasses at the values their declarations give them.
CoreSchema(kind, type, initialRules, descriptor) ==
  [kind |-> kind,
   rules |-> initialRules,
   desc |-> descriptor @@ ("type" :> type),
   inner |-> 0,
   shape |-> <<>>,
   loose |-> FALSE,
   subs |-> <<>>,
   elem |-> 0,
   isTuple |-> FALSE,
   canBeEmpty |-> FALSE,
   allowDuplicates |-> TRUE,
   whitelist |-> NoList,
   blacklist |-> NoList,
   minDate |-> Undefined,
   maxDate |-> Undefined]

\* this.$metadata(data): a shallow merge, the keys of data winning.
Metadata(self, data) == [self EXCEPT !.desc = data @@ self.desc]

\* this.$add(rule)
Add(self, rule) == [self EXCEPT !.rules = Append(self.rules, rule)]

NoDesc == [k \in {} |-> TRUE]

(***************************************************************************)
(* Validation.  An outcome is the list returned, or an abort (threw), with *)
(* the log of what was evaluated on the way: [s |-> r, i |-> 0] for a call *)
(* of heap[r].__$validate and [s |-> r, i |-> n] for a call of its rule n. *)
(***************************************************************************)
Entered(r) == <<[s |-> r, i |-> 0]>>

RuleCalled(r, n) == <<[s |-> r, i |-> n]>>

\* h is the heap as the evaluation leaves it.
Outcome(h, threw, msgs, log) == [threw |-> threw, msgs |-> msgs, log |-> log, h |-> h]

\* The outcome out, after what log records.
After(log, out) == [out EXCEPT !.log = log \o out.log]

RECURSIVE RunRulesMutant(_, _, _, _)
\* A rule chain that goes on after a failing rule and reports every failure.
RunRulesMutant(h, r, v, i) ==
  IF i > Len(h[r].rules) THEN Outcome(h, FALSE, <<>>, <<>>)
  ELSE LET result == RuleEval(h[r], h[r].rules[i], v)
           left == IF h[r].rules[i].op = "pattern"
                   THEN [h EXCEPT ![r].rules[i] = RuleLeft(@, v)]
                   ELSE h
           rest == RunRulesMutant(left, r, v, i + 1)
       IN IF result.threw THEN Outcome(left, TRUE, <<>>, RuleCalled(r, i))
          ELSE IF ~result.pass
               THEN [After(RuleCalled(r, i), rest) EXCEPT !.msgs = <<result.msg>> \o rest.msgs]
               ELSE After(RuleCalled(r, i), rest)

RECURSIVE RunRules(_, _, _, _)
\* The for loop of CoreSchema.__$validate, from rule i on.
RunRules(h, r, v, i) ==
  IF i > Len(h[r].rules) THEN Outcome(h, FALSE, <<>>, <<>>)
  ELSE LET result == RuleEval(h[r], h[r].rules[i], v)
           left == IF h[r].rules[i].op = "pattern"
                   THEN [h EXCEPT ![r].rules[i] = RuleLeft(@, v)]
                   ELSE h
       IN IF result.threw THEN Outcome(left, TRUE, <<>>, RuleCalled(r, i))
          ELSE IF ~result.pass THEN Outcome(left, FALSE, <<result.msg>>, RuleCalled(r, i))
          ELSE After(RuleCalled(r, i), RunRules(left, r, v, i + 1))

CoreValidate(h, r, v) == RunRules(h, r, v, 1)

\* msgs.map(msg => `key "${ key }" ${ msg }`)
KeyPrefixed(key, msgs) ==
  [n \in 1..Len(msgs) |-> "key \"" \o key \o "\" " \o msgs[n]]

RECURSIVE Flat(_)
\* lists.flat()
Flat(lists) == IF lists = <<>> THEN <<>> ELSE Head(lists) \o Flat(Tail(lists))

\* The shape's own keys.
ShapeKeys(self) == {self.shape[n].key : n \in 1..Len(self.shape)}

\* key in input, and Object.keys(input), of an object.
HasKey(v, key) == key \in DOMAIN v.o

InputKeys(v) == DOMAIN v.o

RECURSIVE Validate(_, _, _)
RECURSIVE ObjectLoop(_, _, _, _, _)
RECURSIVE MapValidate(_, _, _, _)
RECURSIVE EachItem(_, _, _, _)
RECURSIVE EachTuple(_, _, _, _)

RECURSIVE ObjectLoopSkipsAbsent(_, _, _, _, _)
\* An object loop that passes over every absent key, required or not.
ObjectLoopSkipsAbsent(h, r, v, n, hasUnknownKeys) ==
  LET self == h[r]
  IN IF n > Len(self.shape) THEN Outcome(h, FALSE, <<>>, <<>>)
     ELSE LET key == self.shape[n].key
          IN IF HasKey(v, key)
             THEN LET got == Validate(h, self.shape[n].ref, v.o[key])
                  IN IF got.threw THEN got
                     ELSE IF Len(got.msgs) > 0
                          THEN Outcome(got.h, FALSE, KeyPrefixed(key, got.msgs), got.log)
                          ELSE After(got.log,
                                     ObjectLoopSkipsAbsent(got.h, r, v, n + 1, hasUnknownKeys))
             ELSE ObjectLoopSkipsAbsent(h, r, v, n + 1, hasUnknownKeys)

RECURSIVE ObjectLoopAlwaysStrict(_, _, _, _, _)
\* An object loop that finds the input's keys outside the shape and rejects them
\* whatever the loose flag.
ObjectLoopAlwaysStrict(h, r, v, n, hasUnknownKeys) ==
  LET self == h[r]
  IN IF n > Len(self.shape)
     THEN IF InputKeys(v) \ ShapeKeys(self) # {}
          THEN Outcome(h, FALSE, <<"unknown keys not allowed">>, <<>>)
          ELSE Outcome(h, FALSE, <<>>, <<>>)
     ELSE LET key == self.shape[n].key
              child == self.shape[n].ref
          IN IF ~HasKey(v, key) /\ h[child].kind # "optional"
             THEN Outcome(h, FALSE, <<"key \"" \o key \o "\" not found">>, <<>>)
             ELSE IF HasKey(v, key)
                  THEN LET got == Validate(h, child, v.o[key])
                       IN IF got.threw THEN got
                          ELSE IF Len(got.msgs) > 0
                               THEN Outcome(got.h, FALSE, KeyPrefixed(key, got.msgs), got.log)
                               ELSE After(got.log,
                                          ObjectLoopAlwaysStrict(got.h, r, v, n + 1, hasUnknownKeys))
                  ELSE ObjectLoopAlwaysStrict(h, r, v, n + 1, hasUnknownKeys)

\* The for loop of ObjectSchema.__$validate from shape key n on, and what follows it.
ObjectLoop(h, r, v, n, hasUnknownKeys) ==
  LET self == h[r]
  IN IF n > Len(self.shape)
     THEN IF hasUnknownKeys /\ ~self.loose
          THEN Outcome(h, FALSE, <<"unknown keys not allowed">>, <<>>)
          ELSE Outcome(h, FALSE, <<>>, <<>>)
     ELSE LET key == self.shape[n].key
              child == self.shape[n].ref
              unknown == hasUnknownKeys
                           \/ (key \notin ShapeKeys(self) /\ key \in InputKeys(v))
          IN IF ~HasKey(v, key) /\ h[child].kind # "optional"
             THEN Outcome(h, FALSE, <<"key \"" \o key \o "\" not found">>, <<>>)
             ELSE IF HasKey(v, key)
                  THEN LET got == Validate(h, child, v.o[key])
                       IN IF got.threw THEN got
                          ELSE IF Len(got.msgs) > 0
                               THEN Outcome(got.h, FALSE, KeyPrefixed(key, got.msgs), got.log)
                               ELSE After(got.log, ObjectLoop(got.h, r, v, n + 1, unknown))
                  ELSE ObjectLoop(h, r, v, n + 1, unknown)

\* ObjectSchema.__$validate: Object.keys(null) is a TypeError.
ObjectValidate(h, r, v) ==
  IF TypeOf(v) # "object" \/ IsArray(v) THEN Outcome(h, FALSE, <<"not an object">>, <<>>)
  ELSE IF v.t = "null" THEN Outcome(h, TRUE, <<>>, <<>>)
  ELSE ObjectLoop(h, r, v, 1, FALSE)

\* subs.map(s => s.__$validate(x)) from sub n on: the lists in order, or the abort
\* of the first call that aborts.
MapValidate(h, subs, v, n) ==
  IF n > Len(subs) THEN [threw |-> FALSE, lists |-> <<>>, log |-> <<>>, h |-> h]
  ELSE LET got == Validate(h, subs[n], v)
       IN IF got.threw THEN [threw |-> TRUE, lists |-> <<>>, log |-> got.log, h |-> got.h]
          ELSE LET rest == MapValidate(got.h, subs, v, n + 1)
               IN [threw |-> rest.threw,
                   lists |-> <<got.msgs>> \o rest.lists,
                   log |-> got.log \o rest.log,
                   h |-> rest.h]

\* Whether the list at n is empty, for each n.
Matches(lists) == {n \in 1..Len(lists) : Len(lists[n]) = 0}

OneOfValidate(h, r, v) ==
  LET all == MapValidate(h, h[r].subs, v, 1)
      matchCount == Cardinality(Matches(all.lists))
  IN IF all.threw THEN Outcome(all.h, TRUE, <<>>, all.log)
     ELSE IF matchCount = 1 THEN Outcome(all.h, FALSE, <<>>, all.log)
     ELSE Outcome(all.h, FALSE,
                  <<IF matchCount < 1 THEN "none of the provided schemas is valid"
                    ELSE "more than one schema is valid">> \o Flat(all.lists),
                  all.log)

AnyOfValidate(h, r, v) ==
  LET all == MapValidate(h, h[r].subs, v, 1)
  IN IF all.threw THEN Outcome(all.h, TRUE, <<>>, all.log)
     ELSE IF Matches(all.lists) # {} THEN Outcome(all.h, FALSE, <<>>, all.log)
     ELSE Outcome(all.h, FALSE, <<"all schemas are invalid">> \o Flat(all.lists), all.log)

AllOfValidate(h, r, v) ==
  LET all == MapValidate(h, h[r].subs, v, 1)
  IN IF all.threw THEN Outcome(all.h, TRUE, <<>>, all.log)
     ELSE IF Matches(all.lists) = 1..Len(all.lists) THEN Outcome(all.h, FALSE, <<>>, all.log)
     ELSE Outcome(all.h, FALSE, <<"some of the provided schemas are invalid">> \o Flat(all.lists),
                  all.log)

\* NotSchema.__$validate: subs is <<base, not>>.
NotValidate(h, r, v) ==
  LET base == Validate(h, h[r].subs[1], v)
      excluded == Validate(base.h, h[r].subs[2], v)
      passesBase == Len(base.msgs) = 0
      failsNot == Len(excluded.msgs) # 0
  IN IF base.threw THEN base
     ELSE IF excluded.threw THEN After(base.log, excluded)
     ELSE IF passesBase /\ failsNot
          THEN Outcome(excluded.h, FALSE, <<>>, base.log \o excluded.log)
     ELSE Outcome(excluded.h, FALSE,
                  <<IF ~passesBase THEN "base schema is invalid"
                    ELSE "value must not match the excluded schema">>
                    \o (IF passesBase THEN excluded.msgs ELSE base.msgs),
                  base.log \o excluded.log)

\* for (const item of input): the first element the element schema rejects.
EachItem(h, r, v, n) ==
  IF n > Len(v.items) THEN Outcome(h, FALSE, <<>>, <<>>)
  ELSE LET got == Validate(h, h[r].elem, v.items[n])
       IN IF got.threw \/ Len(got.msgs) > 0 THEN got
          ELSE After(got.log, EachItem(got.h, r, v, n + 1))

\* for (let i = 0; i < input.length; i++): position by position.
EachTuple(h, r, v, n) ==
  IF n > Len(v.items) THEN Outcome(h, FALSE, <<>>, <<>>)
  ELSE LET got == Validate(h, h[r].subs[n], v.items[n])
       IN IF got.threw \/ Len(got.msgs) > 0 THEN got
          ELSE After(got.log, EachTuple(got.h, r, v, n + 1))

\* An array validation that leaves uniqueness, the whitelist and the blacklist to
\* the rules the chain calls pushed, each at its place in the chain.
ArrayValidateByChain(h, r, v) ==
  LET self == h[r]
      items == IF self.isTuple THEN EachTuple(h, r, v, 1)
               ELSE IF self.elem # 0 THEN EachItem(h, r, v, 1)
               ELSE Outcome(h, FALSE, <<>>, <<>>)
  IN IF ~IsArray(v) THEN Outcome(h, FALSE, <<TypeOf(v) \o " is not an array">>, <<>>)
     ELSE IF self.isTuple /\ Len(v.items) # Len(self.subs)
          THEN Outcome(h, FALSE, <<"invalid array length">>, <<>>)
     ELSE IF items.threw \/ Len(items.msgs) > 0 THEN items
     ELSE After(items.log, CoreValidate(items.h, r, v))

\* ArraySchema.__$validate: tupleSchemas is subs, elementSchema is elem.
ArrayValidate(h, r, v) ==
  LET self == h[r]
      items == IF ~IsArray(v) THEN Outcome(h, FALSE, <<>>, <<>>)
               ELSE IF self.isTuple THEN EachTuple(h, r, v, 1)
               ELSE IF self.elem # 0 THEN EachItem(h, r, v, 1)
               ELSE Outcome(h, FALSE, <<>>, <<>>)
  IN IF ~IsArray(v) THEN Outcome(h, FALSE, <<TypeOf(v) \o " is not an array">>, <<>>)
     ELSE IF self.isTuple /\ Len(v.items) # Len(self.subs)
          THEN Outcome(h, FALSE, <<"invalid array length">>, <<>>)
     ELSE IF items.threw \/ Len(items.msgs) > 0 THEN items
     ELSE IF ~self.allowDuplicates /\ DistinctCount(v.items) # Len(v.items)
          THEN Outcome(items.h, FALSE, <<"duplicates not allowed">>, items.log)
     ELSE IF self.whitelist.on
             /\ ~\A n \in 1..Len(v.items) : ListIncludes(self.whitelist.vals, v.items[n])
          THEN Outcome(items.h, FALSE, <<"some of provided values are not allowed">>, items.log)
     ELSE IF self.blacklist.on
             /\ \E n \in 1..Len(v.items) : ListIncludes(self.blacklist.vals, v.items[n])
          THEN Outcome(items.h, FALSE, <<"some of provided values are not allowed">>, items.log)
     ELSE After(items.log, CoreValidate(items.h, r, v))

\* An Optional wrapper that takes null as well as undefined for an absent value.
OptionalAcceptsNull(h, r, v) ==
  IF v.t \in {"undefined", "null"} THEN Outcome(h, FALSE, <<>>, <<>>)
  ELSE Validate(h, h[r].inner, v)

\* NullableSchema.__$validate and OptionalSchema.__$validate
NullableValidate(h, r, v) ==
  IF v.t = "null" THEN Outcome(h, FALSE, <<>>, <<>>) ELSE Validate(h, h[r].inner, v)

OptionalValidate(h, r, v) ==
  IF v.t = "undefined" THEN Outcome(h, FALSE, <<>>, <<>>) ELSE Validate(h, h[r].inner, v)

\* DateSchema.__$validate: _input is the parsed date of a string input, and null
\* for any other input.
DateValidate(h, r, v) ==
  LET self == h[r]
      input == IF v.t = "string" THEN ToDate(v) ELSE Null
  IN IF v.t = "string" /\ input = Null
     THEN Outcome(h, FALSE, <<v.s \o " is not a valid date">>, <<>>)
     ELSE IF input = Null THEN Outcome(h, FALSE, <<"NaN is not a valid date">>, <<>>)
     ELSE IF self.minDate # Undefined /\ NumLt(input.time, self.minDate.time)
          THEN Outcome(h, FALSE,
                       <<"shall be greater than or equal to " \o self.minDate.iso>>, <<>>)
     ELSE IF self.maxDate # Undefined /\ NumLt(self.maxDate.time, input.time)
          THEN Outcome(h, FALSE,
                       <<"shall be less than or equal to " \o self.maxDate.iso>>, <<>>)
     ELSE CoreValidate(h, r, input)

\* schema.__$validate(input): the method of the instance's class.
Validate(h, r, v) ==
  After(Entered(r),
        CASE h[r].kind \in {"boolean", "number", "string"} -> CoreValidate(h, r, v)
          [] h[r].kind = "nullable" -> NullableValidate(h, r, v)
          [] h[r].kind = "optional" -> OptionalValidate(h, r, v)
          [] h[r].kind = "object" -> ObjectValidate(h, r, v)
          [] h[r].kind = "array" -> ArrayValidate(h, r, v)
          [] h[r].kind = "date" -> DateValidate(h, r, v)
          [] h[r].kind = "oneOf" -> OneOfValidate(h, r, v)
          [] h[r].kind = "anyOf" -> AnyOfValidate(h, r, v)
          [] h[r].kind = "allOf" -> AllOfValidate(h, r, v)
          [] h[r].kind = "not" -> NotValidate(h, r, v))

(***************************************************************************)
(* The primitive schemas and their chain calls, as functions of the        *)
(* receiver: each returns the receiver as the call leaves it.              *)
(***************************************************************************)
BooleanSchema == CoreSchema("boolean", "boolean", <<Rule("isBoolean", 0, 0, "", <<>>)>>, NoDesc)

NumberSchema == CoreSchema("number", "number", <<Rule("isNumber", 0, 0, "", <<>>)>>, NoDesc)

StringSchema ==
  CoreSchema("string", "string", <<Rule("isString", 0, 0, "", <<>>), Rule("notEmpty", 0, 0, "", <<>>)>>, NoDesc)

\* BasePrimitive.valid(...input) and BasePrimitive.invalid(...input)
PrimitiveValid(self, input) == Add(Metadata(self, "valid" :> input), Rule("valid", 0, 0, "", input))

PrimitiveInvalid(self, input) ==
  Add(Metadata(self, "invalid" :> input), Rule("invalid", 0, 0, "", input))

NumberFloat(self) == Add(Metadata(self, "type" :> "float"), Rule("float", 0, 0, "", <<>>))

NumberInteger(self) == Add(Metadata(self, "type" :> "integer"), Rule("integer", 0, 0, "", <<>>))

NumberGte(self, n) == Add(Metadata(self, "minimum" :> Int2(n)), Rule("gte", n, 0, "", <<>>))

NumberLte(self, n) == Add(Metadata(self, "maximum" :> Int2(n)), Rule("lte", n, 0, "", <<>>))

NumberGt(self, n) == Add(Metadata(self, "exclusiveMinimum" :> Int2(n)), Rule("gt", n, 0, "", <<>>))

NumberLt(self, n) == Add(Metadata(self, "exclusiveMaximum" :> Int2(n)), Rule("lt", n, 0, "", <<>>))

NumberFormat(self, format) == Metadata(self, "format" :> format)

PortMax == 65535

NumberPort(self) == NumberLte(NumberGte(NumberFormat(NumberInteger(self), "int32"), 0), PortMax)

NumberMultiple(self, base) ==
  Add(Metadata(self, "multipleOf" :> Int2(base)), Rule("multiple", base, 0, "", <<>>))

NumberPrecision(self, decimals) ==
  Add(Metadata(self, "x-precision" :> Int2(decimals)), Rule("precision", decimals, 0, "", <<>>))

StringEmpty(self) == [self EXCEPT !.canBeEmpty = TRUE]

StringMin(self, n) == Add(Metadata(self, "minLength" :> Int2(n)), Rule("minLength", n, 0, "", <<>>))

StringMax(self, n) == Add(Metadata(self, "maxLength" :> Int2(n)), Rule("maxLength", n, 0, "", <<>>))

\* length(a) and length(a, b)
StringLength(self, a) ==
  Add(Metadata(self, ("minLength" :> Int2(a)) @@ ("maxLength" :> Int2(a))), Rule("length", a, 0, "", <<>>))

StringLengthRange(self, a, b) ==
  Add(Metadata(self, ("minLength" :> Int2(a)) @@ ("maxLength" :> Int2(b))),
      Rule("lengthRange", a, b, "", <<>>))

\* pattern(re), re the RegExp of the source text.
StringPattern(self, source) ==
  Add(Metadata(self, "pattern" :> <<source, RegExp(source).flags>>), Rule("pattern", 0, 0, source, <<>>))

StringStartsWith(self, prefix) ==
  Add(Metadata(self, "startsWith" :> prefix), Rule("startsWith", 0, 0, prefix, <<>>))

StringEndsWith(self, suffix) ==
  Add(Metadata(self, "endsWith" :> suffix), Rule("endsWith", 0, 0, suffix, <<>>))

StringIncludes(self, substr) ==
  Add(Metadata(self, "includes" :> substr), Rule("includes", 0, 0, substr, <<>>))

StringTrim(self) == Add(self, Rule("trim", 0, 0, "", <<>>))

StringLowercase(self) == Add(self, Rule("lowercase", 0, 0, "", <<>>))

StringUppercase(self) == Add(self, Rule("uppercase", 0, 0, "", <<>>))

StringAlphanumeric(self) ==
  StringPattern(Metadata(self, "x-format" :> "alphanumeric"), "^[a-zA-Z0-9]+$")

\* email(), uuid(), ip(), isoDate() and dateTime(): a format and its pattern.
StringFormat(self, format, source) ==
  StringPattern(Metadata(self, "format" :> format), source)

StringUri(self) == Add(Metadata(self, "format" :> "uri"), Rule("uri", 0, 0, "", <<>>))

(***************************************************************************)
(* The composite schemas.  A constructor is a function of the heap and of  *)
(* the references it is given; it returns the new instance.                *)
(***************************************************************************)
RECURSIVE ExportMetadata(_, _)
\* schema.__$exportMetadata(): the descriptor, with the children's exports added
\* by ObjectSchema and ArraySchema at the time of the call.
ExportMetadata(h, r) ==
  LET self == h[r]
  IN CASE self.kind = "object" ->
            ("shape" :> [key \in ShapeKeys(self) |->
                           ExportMetadata(h, self.shape[CHOOSE n \in 1..Len(self.shape) :
                                                          self.shape[n].key = key].ref)])
              @@ self.desc
       [] self.kind = "array" ->
            (IF self.isTuple
             THEN "tuple" :> [n \in 1..Len(self.subs) |-> ExportMetadata(h, self.subs[n])]
             ELSE NoDesc)
              @@ (IF self.elem # 0 THEN "items" :> ExportMetadata(h, self.elem) ELSE NoDesc)
              @@ self.desc
       [] OTHER -> self.desc

\* new NullableSchema(inner) and new OptionalSchema(inner)
NullableSchema(h, inner) ==
  [CoreSchema("nullable", h[inner].desc["type"], <<>>, ("nullable" :> TRUE) @@ h[inner].desc)
     EXCEPT !.inner = inner]

OptionalSchema(h, inner) ==
  [CoreSchema("optional", h[inner].desc["type"], <<>>, ("optional" :> TRUE) @@ h[inner].desc)
     EXCEPT !.inner = inner]

\* new ObjectSchema(shape): shape is the list of [key, ref] in declaration order.
ObjectSchema(shape) == [CoreSchema("object", "object", <<>>, NoDesc) EXCEPT !.shape = shape]

\* The loose getter: a new instance over the same shape.
Loose(self) == [ObjectSchema(self.shape) EXCEPT !.loose = TRUE]

\* new OneOfSchema(subs), new AnyOfSchema(subs), new AllOfSchema(subs): kind is the
\* type label, which is the descriptor key of the children's exports as well.
ComposeSchema(h, kind, subs) ==
  [Metadata(CoreSchema(kind, kind, <<>>, NoDesc),
            kind :> [n \in 1..Len(subs) |-> ExportMetadata(h, subs[n])])
     EXCEPT !.subs = subs]

\* new NotSchema(base, not)
NotSchema(h, base, excluded) ==
  [Metadata(CoreSchema("not", "not", <<>>, NoDesc),
            ("allOf" :> <<ExportMetadata(h, base)>>) @@ ("not" :> ExportMetadata(h, excluded)))
     EXCEPT !.subs = <<base, excluded>>]

\* new ArraySchema(arg), arg a schema: a homogeneous array.
ArraySchema(h, elem) ==
  [Metadata(CoreSchema("array", "array", <<>>, NoDesc), "items" :> ExportMetadata(h, elem))
     EXCEPT !.elem = elem]

\* new ArraySchema(arg), arg an array of schemas: a tuple.
TupleSchema(h, subs) ==
  [Metadata(CoreSchema("array", "array", <<>>, NoDesc),
            "tuple" :> [n \in 1..Len(subs) |-> ExportMetadata(h, subs[n])])
     EXCEPT !.subs = subs, !.isTuple = TRUE]

\* The chain calls of ArraySchema.
ArrayMin(self, n) == Add(Metadata(self, "minItems" :> Int2(n)), Rule("minItems", n, 0, "", <<>>))

ArrayMax(self, n) == Add(Metadata(self, "maxItems" :> Int2(n)), Rule("maxItems", n, 0, "", <<>>))

ArrayLength(self, n) == ArrayMax(ArrayMin(self, n), n)

ArrayUnique(self) ==
  Add(Metadata([self EXCEPT !.allowDuplicates = FALSE], "uniqueItems" :> TRUE),
      Rule("uniqueItems", 0, 0, "", <<>>))

ArrayValid(self, values) ==
  Add(Metadata([self EXCEPT !.whitelist = [on |-> TRUE, vals |-> values]], "valid" :> values),
      Rule("validItems", 0, 0, "", values))

ArrayInvalid(self, values) ==
  Add(Metadata([self EXCEPT !.blacklist = [on |-> TRUE, vals |-> values]], "invalid" :> values),
      Rule("invalidItems", 0, 0, "", values))

\* new ValidationError(message)
ValidationError(message) == [name |-> "ValidationError", code |-> 400, message |-> message]

\* new DateSchema()
DateSchema ==
  Metadata(CoreSchema("date", "string", <<Rule("isDate", 0, 0, "", <<>>)>>, NoDesc),
           "format" :> "date-time")

\* min(d) and max(d) of a DateSchema: the receiver as the call leaves it, and
\* the error it raises, if any.
DateMin(self, d) ==
  LET parsed == ToDate(d)
  IN IF parsed = Null
     THEN [self |-> self, raised |-> ValidationError("Invalid min date")]
     ELSE [self |-> Add(Metadata([self EXCEPT !.minDate = parsed], "minimum" :> parsed.iso),
                        Rule("minDate", 0, 0, "", <<parsed>>)),
           raised |-> Undefined]

DateMax(self, d) ==
  LET parsed == ToDate(d)
  IN IF parsed = Null
     THEN [self |-> self, raised |-> ValidationError("Invalid max date")]
     ELSE [self |-> Add(Metadata([self EXCEPT !.maxDate = parsed], "maximum" :> parsed.iso),
                        Rule("maxDate", 0, 0, "", <<parsed>>)),
           raised |-> Undefined]

(***************************************************************************)
(* The record of the last API call: its name, the receiver, the input and  *)
(* the outcome of a validation, the map returned by an export, the error   *)
(* raised to the caller.                                                   *)
(***************************************************************************)
NoCall ==
  [op |-> "", recv |-> 0, arg |-> Undefined,
   out |-> [threw |-> FALSE, msgs |-> <<>>, log |-> <<>>],
   exported |-> NoDesc,
   raised |-> Undefined]

Called(op, r) == [NoCall EXCEPT !.op = op, !.recv = r]

(***************************************************************************)
(* The primitive chains: one primitive schema, the chain calls on it and   *)
(* its validation.                                                         *)
(***************************************************************************)
\* The longest rule chain that is built.
MaxRules == 4

\* The arguments of the chain calls.
NumArgs == {2}

ValidArgs(kind) ==
  CASE kind = "boolean" -> {<<Bool(TRUE)>>}
    [] kind = "number" -> {<<Int2(1), Int2(2)>>}
    [] kind = "string" -> {<<Str("ab")>>}

\* seal.boolean(), seal.number() and seal.string()
NewPrimitive ==
  /\ heap = <<>>
  /\ \/ heap' = <<BooleanSchema>> /\ last' = Called("boolean", 1)
     \/ heap' = <<NumberSchema>> /\ last' = Called("number", 1)
     \/ heap' = <<StringSchema>> /\ last' = Called("string", 1)

\* A chain call that leaves its receiver as it was and returns a new instance.
ChainCopies(r, op, new) ==
  /\ Len(new.rules) <= MaxRules
  /\ heap' = Append(heap, new)
  /\ last' = Called(op, Len(heap) + 1)

\* A chain call on heap[r] that leaves it as new and returns it.
Chain(r, op, new) ==
  /\ Len(new.rules) <= MaxRules
  /\ heap' = [heap EXCEPT ![r] = new]
  /\ last' = Called(op, r)

\* valid(...input) and invalid(...input) of a primitive schema.
ListCall ==
  \E r \in DOMAIN heap : \E input \in ValidArgs(heap[r].kind) :
    \/ Chain(r, "valid", PrimitiveValid(heap[r], input))
    \/ Chain(r, "invalid", PrimitiveInvalid(heap[r], input))

\* The chain calls of NumberSchema.
NumberCall ==
  \E r \in DOMAIN heap : \E n \in NumArgs :
    /\ heap[r].kind = "number"
    /\ \/ Chain(r, "float", NumberFloat(heap[r]))
       \/ Chain(r, "double", NumberFloat(heap[r]))
       \/ Chain(r, "positive", NumberGt(heap[r], 0))
       \/ Chain(r, "negative", NumberLt(heap[r], 0))
       \/ Chain(r, "port", NumberPort(heap[r]))
       \/ Chain(r, "integer", NumberInteger(heap[r]))
       \/ Chain(r, "gte", NumberGte(heap[r], n))
       \/ Chain(r, "lte", NumberLte(heap[r], n))
       \/ Chain(r, "gt", NumberGt(heap[r], n))
       \/ Chain(r, "lt", NumberLt(heap[r], n))
       \/ Chain(r, "min", NumberGte(heap[r], n))
       \/ Chain(r, "max", NumberLte(heap[r], n))
       \/ Chain(r, "format", NumberFormat(heap[r], "int32"))
       \/ Chain(r, "multiple", NumberMultiple(heap[r], n))
       \/ Chain(r, "precision", NumberPrecision(heap[r], 0))

\* The chain calls of StringSchema.
StringCall ==
  \E r \in DOMAIN heap : \E n \in NumArgs : \E affix \in {"a"} :
    /\ heap[r].kind = "string"
    /\ \/ Chain(r, "empty", StringEmpty(heap[r]))
       \/ Chain(r, "min", StringMin(heap[r], n))
       \/ Chain(r, "max", StringMax(heap[r], n))
       \/ Chain(r, "length", StringLength(heap[r], n))
       \/ Chain(r, "length", StringLengthRange(heap[r], n - 1, n))
       \/ Chain(r, "pattern", StringPattern(heap[r], "^foo"))
       \/ Chain(r, "startsWith", StringStartsWith(heap[r], affix))
       \/ Chain(r, "endsWith", StringEndsWith(heap[r], affix))
       \/ Chain(r, "includes", StringIncludes(heap[r], affix))
       \/ Chain(r, "trim", StringTrim(heap[r]))
       \/ Chain(r, "lowercase", StringLowercase(heap[r]))
       \/ Chain(r, "uppercase", StringUppercase(heap[r]))
       \/ Chain(r, "alphanumeric", StringAlphanumeric(heap[r]))
       \/ Chain(r, "email", StringFormat(heap[r], "email", "^[^\\s@]+@[^\\s@]+\\.[^\\s@]+$"))
       \/ Chain(r, "uri", StringUri(heap[r]))
       \/ Chain(r, "uuid",
                StringFormat(heap[r], "uuid",
                             "^[0-9a-f]{8}-[0-9a-f]{4}-[1-5][0-9a-f]{3}-[89ab][0-9a-f]{3}-[0-9a-f]{12}$"))
       \/ Chain(r, "ip", StringFormat(heap[r], "ip", "^(?:\\d{1,3}\\.){3}\\d{1,3}$|^[0-9a-f:]+$"))
       \/ Chain(r, "isoDate", StringFormat(heap[r], "date", "^\\d{4}-\\d{2}-\\d{2}$"))
       \/ Chain(r, "dateTime",
                StringFormat(heap[r], "date-time",
                             "^\\d{4}-\\d{2}-\\d{2}T\\d{2}:\\d{2}:\\d{2}(?:\\.\\d+)?Z?$"))

\* seal.validate(schema, input), the input drawn from inputs.
SealValidate(inputs) ==
  \E r \in DOMAIN heap : \E v \in inputs : \E out \in {Validate(heap, r, v)} :
    /\ last' = [Called("validate", r) EXCEPT
                  !.arg = v,
                  !.out = [threw |-> out.threw, msgs |-> out.msgs, log |-> out.log],
                  !.raised = IF out.threw THEN [name |-> "TypeError"] ELSE Undefined]
    /\ heap' = out.h

InitChain == heap = <<>> /\ last = NoCall

SpecChain ==
  InitChain
    /\ [][\/ NewPrimitive
          \/ ListCall
          \/ NumberCall
          \/ StringCall
          \/ SealValidate({Undefined, Null, Bool(TRUE), NaN, Infinity, EmptyObj, Arr(<<Str("ab")>>)}
                              \cup {Num(h) : h \in {-2, 1, 4, 5, 6}}
                              \cup {Str(s) : s \in {"", "ab", "foo", " A"}})]_vars

(***************************************************************************)
(* Composition: over two primitive schemas a client has built, the         *)
(* wrappers, the object schemas and the combinators, and their validation. *)
(***************************************************************************)
\* The most schema instances that are built.
MaxHeap == 4

\* The most keys of a shape, and the most sub-schemas of a combinator.
MaxKeys == 2

MaxSubs == 2

\* seal.number().integer().gte(2) and seal.string().min(2)
Leaves == <<NumberGte(NumberInteger(NumberSchema), 2), StringMin(StringSchema, 2)>>

\* The shapes over the schemas of h: the keys "a", "b" in declaration order.
Shapes(h) ==
  {<<>>}
    \cup {<<[key |-> "a", ref |-> x]>> : x \in DOMAIN h}
    \cup (IF MaxKeys >= 2
          THEN {<<[key |-> "a", ref |-> x], [key |-> "b", ref |-> y]>> :
                  x \in DOMAIN h, y \in DOMAIN h}
          ELSE {})

\* The lists of sub-schemas a combinator is given.
SubLists(h) == UNION {[1..n -> DOMAIN h] : n \in 0..MaxSubs}

\* A constructor call that returns the new instance.
New(op, schema) ==
  /\ Len(heap) < MaxHeap
  /\ heap' = Append(heap, schema)
  /\ last' = Called(op, Len(heap) + 1)

\* schema.optional and schema.nullable
GetOptional == \E r \in DOMAIN heap : New("optional", OptionalSchema(heap, r))

GetNullable == \E r \in DOMAIN heap : New("nullable", NullableSchema(heap, r))

\* seal.object(shape)
SealObject == \E shape \in Shapes(heap) : New("object", ObjectSchema(shape))

\* schema.loose of an object schema: the receiver is left as it is.
GetLoose ==
  \E r \in DOMAIN heap :
    /\ heap[r].kind = "object"
    /\ Len(heap) < MaxHeap
    /\ heap' = Append(heap, Loose(heap[r]))
    /\ last' = Called("loose", r)

\* seal.oneOf(...schemas), seal.anyOf(...schemas) and seal.allOf(...schemas)
SealOneOf == \E subs \in SubLists(heap) : New("oneOf", ComposeSchema(heap, "oneOf", subs))

SealAnyOf == \E subs \in SubLists(heap) : New("anyOf", ComposeSchema(heap, "anyOf", subs))

SealAllOf == \E subs \in SubLists(heap) : New("allOf", ComposeSchema(heap, "allOf", subs))

\* seal.not(schema, not)
SealNot ==
  \E base \in DOMAIN heap : \E excluded \in DOMAIN heap :
    New("not", NotSchema(heap, base, excluded))

Init == heap = Leaves /\ last = NoCall

Spec ==
  Init
    /\ [][\/ GetOptional
          \/ GetNullable
          \/ SealObject
          \/ GetLoose
          \/ SealOneOf
          \/ SealAnyOf
          \/ SealAllOf
          \/ SealNot
          \/ SealValidate({Null, Undefined, Int2(2), Str("ab"), EmptyObj,
                              Obj("a" :> Int2(2)),
                              Obj("b" :> Str("ab")),
                              Obj("a" :> Null),
                              Obj("a" :> EmptyObj),
                              Obj(("a" :> Int2(2)) @@ ("b" :> Str("ab"))),
                              Obj(("a" :> Str("ab")) @@ ("b" :> Int2(2))),
                              Obj(("a" :> Int2(2)) @@ ("c" :> Int2(2)))})]_vars

(***************************************************************************)
(* Arrays: over three schemas a client has built, the homogeneous arrays   *)
(* and the tuples, their chain calls and their validation.                 *)
(***************************************************************************)
\* The most array schemas that are built, and the longest chain on one.
MaxArrays == 1

MaxItemRules == 2

\* seal.number().integer().gte(2), seal.string().min(2) and seal.object({})
ArrayLeaves == Leaves \o <<ObjectSchema(<<>>)>>

\* seal.array(schema) and seal.array([...schemas])
SealArray ==
  /\ Len(heap) < Len(ArrayLeaves) + MaxArrays
  /\ \/ \E elem \in DOMAIN heap : New("array", ArraySchema(heap, elem))
     \/ \E subs \in SubLists(heap) : New("array", TupleSchema(heap, subs))

\* The chain calls of ArraySchema.
ArrayCall ==
  \E r \in DOMAIN heap :
    /\ heap[r].kind = "array"
    /\ \/ Len(heap[r].rules) < MaxItemRules /\ Chain(r, "min", ArrayMin(heap[r], 3))
       \/ Len(heap[r].rules) < MaxItemRules /\ Chain(r, "max", ArrayMax(heap[r], 1))
       \/ Len(heap[r].rules) + 1 < MaxItemRules /\ Chain(r, "length", ArrayLength(heap[r], 2))
       \/ Len(heap[r].rules) < MaxItemRules /\ Chain(r, "unique", ArrayUnique(heap[r]))
       \/ Len(heap[r].rules) < MaxItemRules
            /\ Chain(r, "valid", ArrayValid(heap[r], <<Int2(2)>>))
       \/ Len(heap[r].rules) < MaxItemRules
            /\ Chain(r, "invalid", ArrayInvalid(heap[r], <<Int2(3)>>))

InitArray == heap = ArrayLeaves /\ last = NoCall

SpecArray ==
  InitArray
    /\ [][\/ SealArray
          \/ ArrayCall
          \/ SealValidate({Null, Int2(2), Arr(<<>>),
                              Arr(<<Int2(2)>>), Arr(<<Int2(3)>>), Arr(<<Int2(1)>>), Arr(<<Null>>),
                              Arr(<<Int2(2), Int2(2)>>), Arr(<<Int2(2), Int2(3)>>), Arr(<<Int2(1), Int2(1)>>),
                              Arr(<<Int2(2), Str("ab")>>), Arr(<<Int2(2), Null>>), Arr(<<Int2(2), Str("a")>>),
                              Arr(<<Int2(2), Int2(3), Int2(2)>>)})]_vars

(***************************************************************************)
(* A schema that is held: a number schema, the wrapper, the object schema, *)
(* the array and the combinator a client has built over it, the chain      *)
(* calls that go on on it, the validations and the exports.                *)
(***************************************************************************)
\* a = seal.number, a.optional, seal.object({ a }), seal.array(a), seal.oneOf(a)
AliasHeap ==
  <<NumberSchema,
    OptionalSchema(<<NumberSchema>>, 1),
    ObjectSchema(<<[key |-> "a", ref |-> 1]>>),
    ArraySchema(<<NumberSchema>>, 1),
    ComposeSchema(<<NumberSchema>>, "oneOf", <<1>>)>>

\* An export that keeps the map it built as the descriptor of the schema.
SealExportStores ==
  \E r \in DOMAIN heap :
    /\ last' = [Called("export", r) EXCEPT !.exported = ExportMetadata(heap, r)]
    /\ heap' = [heap EXCEPT ![r] = Metadata(@, ExportMetadata(heap, r))]

\* seal.exportMetadataOf(schema)
SealExport ==
  \E r \in DOMAIN heap :
    /\ last' = [Called("export", r) EXCEPT !.exported = ExportMetadata(heap, r)]
    /\ UNCHANGED heap

InitAlias == heap = AliasHeap /\ last = NoCall

\* The longest rule list of the schema that is held.
MaxAliasRules == 3

SpecAlias ==
  InitAlias
    /\ [][\/ NumberCall /\ Len(heap'[1].rules) <= MaxAliasRules
          \/ SealValidate({Undefined, Int2(2), Num(5), Obj("a" :> Int2(2)), Obj("a" :> Num(5)),
                              Arr(<<Int2(2), Num(5)>>)})
          \/ SealExport]_vars

(***************************************************************************)
(* Dates: a date schema, its bound modifiers and its validation.           *)
(***************************************************************************)
\* A call of a bound modifier with the bounds args that leaves the receiver as
\* done.self and raises done.raised.
DateChain(r, op, args, done) ==
  /\ Len(done.self.rules) <= MaxRules
  /\ heap' = [heap EXCEPT ![r] = done.self]
  /\ last' = [Called(op, r) EXCEPT !.arg = Arr(args), !.raised = done.raised]

\* min(d), max(d) and between(min, max): this.min(min).max(max)
DateCall ==
  \E r \in DOMAIN heap :
    \E d, e \in {Str("2024-01-01"), Str("2025-01-01"), Str("nope"),
                 DateOf(Int2(20240601), "2024-06-01T00:00:00.000Z"), DateOf(NaN, "")} :
      LET lower == DateMin(heap[r], d)
      IN /\ heap[r].kind = "date"
         /\ \/ DateChain(r, "min", <<d>>, lower)
            \/ DateChain(r, "max", <<d>>, DateMax(heap[r], d))
            \/ DateChain(r, "between", <<d, e>>,
                         IF lower.raised # Undefined THEN lower ELSE DateMax(lower.self, e))

InitDate == heap = <<DateSchema>> /\ last = NoCall

SpecDate ==
  InitDate
    /\ [][\/ DateCall
          \/ SealValidate({Null, Int2(2), Str("nope"), Str("2024-01-01"), Str("2024-12-01"),
                           Str("2026-01-01"),
                           DateOf(Int2(20240601), "2024-06-01T00:00:00.000Z")})]_vars

(***************************************************************************)
(* A client pattern: a string schema and an array of it, the chain calls   *)
(* on the string schema, pattern(/foo/g) among them, and the validations.  *)
(***************************************************************************)
\* pattern(/foo/g)
PatternCall ==
  \E r \in DOMAIN heap :
    heap[r].kind = "string" /\ Chain(r, "pattern", StringPattern(heap[r], "foo"))

InitPattern == heap = <<StringSchema, ArraySchema(<<StringSchema>>, 1)>> /\ last = NoCall

SpecPattern ==
  InitPattern
    /\ [][\/ (StringCall \/ PatternCall) /\ Len(heap'[1].rules) <= MaxAliasRules
          \/ SealValidate({Null, Str("ab"), Str("foo"), Str("foofoo"), Str("a foo"),
                           Arr(<<Str("foo")>>), Arr(<<Str("foo"), Str("foo")>>)})]_vars

(***************************************************************************)
(* Wrappers and copies: over one number schema, the wrappers, the objects  *)
(* of one key, their loose copies and the homogeneous arrays a client      *)
(* builds, the metadata calls on the objects, the exports, the validations.*)
(***************************************************************************)
\* schema.name(name) and schema.deprecated of an object schema.
MetaCall ==
  \E r \in DOMAIN heap :
    /\ heap[r].kind = "object"
    /\ \/ Chain(r, "name", Metadata(heap[r], "name" :> "n"))
       \/ Chain(r, "deprecated", Metadata(heap[r], "deprecated" :> TRUE))

InitWrap == heap = <<NumberGte(NumberInteger(NumberSchema), 2)>> /\ last = NoCall

SpecWrap ==
  InitWrap
    /\ [][\/ GetOptional
          \/ GetNullable
          \/ SealObject /\ Len(heap'[Len(heap')].shape) < MaxKeys
          \/ SealArray /\ ~heap'[Len(heap')].isTuple
          \/ GetLoose
          \/ MetaCall
          \/ SealExport
          \/ SealValidate({Undefined, Null, EmptyObj, Obj("a" :> Int2(2))})]_vars

(***************************************************************************)
(* The rule chain (C1)                                                     *)
(***************************************************************************)
\* The last call was a validation of a primitive schema.
ChainValidated ==
  /\ last.op = "validate"
  /\ heap[last.recv].kind \in {"boolean", "number", "string"}

\* The rules of the validated schema whose predicate is false on the input.
FailingRules ==
  {i \in 1..Len(heap[last.recv].rules) :
     ~RuleEval(heap[last.recv], heap[last.recv].rules[i], last.arg).pass}

\* C1: a validation by the rule chain returns the empty list when every rule
\* passes, and otherwise exactly the message of the first rule in chain-call order
\* whose predicate is false; it evaluates the rules up to that one and none after
\* it, so the result has zero or one message.
C1_FirstFailingRuleOnly ==
  ChainValidated =>
    LET self == heap[last.recv]
        first == CHOOSE i \in FailingRules : \A j \in FailingRules : i <= j
        evaluated == {e.i : e \in {last.out.log[n] : n \in 1..Len(last.out.log)}} \ {0}
    IN /\ ~last.out.threw
       /\ Len(last.out.msgs) \in {0, 1}
       /\ FailingRules = {} =>
            last.out.msgs = <<>> /\ evaluated = 1..Len(self.rules)
       /\ FailingRules # {} =>
            /\ last.out.msgs = <<RuleEval(self, self.rules[first], last.arg).msg>>
            /\ evaluated = 1..first

\* A validation in which a rule fails and a later rule of the chain fails as well.
C1_Witness ==
  /\ ChainValidated
  /\ Cardinality(FailingRules) >= 2
  /\ \E i \in FailingRules : i > 1 /\ \A j \in FailingRules : i <= j

(***************************************************************************)
(* Validation of the composite schemas (C2 to C10)                         *)
(***************************************************************************)
Validated(kind) == last.op = "validate" /\ heap[last.recv].kind = kind

\* The validated schema.
Self == heap[last.recv]

\* A validation that returned the empty list.
Accepts(out) == ~out.threw /\ out.msgs = <<>>

\* The input is a non-array object, null apart.
PlainObjectInput == last.arg.t = "object"

\* Shape key n of the validated object schema: whether the input has it, whether
\* its schema is anything but an Optional wrapper, and what its schema makes of
\* the input's value.
Present(n) == PlainObjectInput /\ Self.shape[n].key \in DOMAIN last.arg.o

Required(n) == heap[Self.shape[n].ref].kind # "optional"

ChildOutcome(n) == Validate(heap, Self.shape[n].ref, last.arg.o[Self.shape[n].key])

PresentKeysValidate ==
  \A n \in 1..Len(Self.shape) : Present(n) => Accepts(ChildOutcome(n))

MissingKeys == {n \in 1..Len(Self.shape) : ~Present(n) /\ Required(n)}

FailingKeys == {n \in 1..Len(Self.shape) : Present(n) /\ ~Accepts(ChildOutcome(n))}

First(S) == CHOOSE n \in S : \A m \in S : n <= m

\* C2: validation is total; whatever the schema and the input, validate returns a
\* list of messages and never aborts.
C2_ValidateNeverAborts == last.op = "validate" => ~last.out.threw

\* An object schema given null aborts.
C2_Witness == Validated("object") /\ last.arg = Null /\ last.out.threw

Reached(n) ==
  \A j \in 1..(n - 1) : IF Present(j) THEN Accepts(ChildOutcome(j)) ELSE ~Required(j)

RECURSIVE ChildLogs(_)
\* What the children of the present keys among the first n shape keys evaluate.
ChildLogs(n) ==
  IF n = 0 THEN <<>>
  ELSE ChildLogs(n - 1) \o (IF Present(n) THEN ChildOutcome(n).log ELSE <<>>)

\* The result of the object schema is the list of the child of shape key n, each
\* message prefixed with the key, and nothing after that child was evaluated.
ReportsChild(n) ==
  /\ ~last.out.threw
  /\ last.out.msgs = KeyPrefixed(Self.shape[n].key, ChildOutcome(n).msgs)
  /\ last.out.log = Entered(last.recv) \o ChildLogs(n)

\* C4: when the validation of a child of an object schema fails, the result is that
\* child's list, each message prefixed with key "<key>", for the first shape key
\* in declaration order whose present value fails; the children of later shape
\* keys are not evaluated.
C4_FirstFailingChildReported ==
  (Validated("object") /\ PlainObjectInput /\ FailingKeys # {}
     /\ Reached(First(FailingKeys)))
    => ReportsChild(First(FailingKeys))

\* The same, for a child that fails by returning messages.
C4_UnlessChildAborts ==
  (Validated("object") /\ PlainObjectInput /\ FailingKeys # {}
     /\ Reached(First(FailingKeys)) /\ ~ChildOutcome(First(FailingKeys)).threw)
    => ReportsChild(First(FailingKeys))

\* The first failing child is an object schema given null, and the validation of
\* the parent aborts.
C4_Witness ==
  /\ Validated("object") /\ PlainObjectInput /\ FailingKeys # {}
  /\ Reached(First(FailingKeys))
  /\ ChildOutcome(First(FailingKeys)).threw
  /\ last.out.threw

\* A child that returns several messages, all of them reported with the prefix,
\* while the child of the next key would fail as well.
C4_ManyMessages ==
  /\ Validated("object") /\ PlainObjectInput /\ FailingKeys = {1, 2}
  /\ Len(ChildOutcome(1).msgs) > 1
  /\ ReportsChild(1)

\* Sub-schema n of the validated combinator on the input.
SubOutcome(n) == Validate(heap, Self.subs[n], last.arg)

Matching == {n \in 1..Len(Self.subs) : Accepts(SubOutcome(n))}

SubAborts == \E n \in 1..Len(Self.subs) : SubOutcome(n).threw

RECURSIVE SubMsgs(_)
\* The lists of the first n sub-schemas, concatenated in declaration order.
SubMsgs(n) == IF n = 0 THEN <<>> ELSE SubMsgs(n - 1) \o SubOutcome(n).msgs

RECURSIVE SubLogs(_)
SubLogs(n) == IF n = 0 THEN <<>> ELSE SubLogs(n - 1) \o SubOutcome(n).log

\* The combinator returned: empty when accepted holds, and otherwise the header
\* followed by every sub-schema's list; every sub-schema was evaluated.
Combines(accepted, header) ==
  /\ ~last.out.threw
  /\ last.out.log = Entered(last.recv) \o SubLogs(Len(Self.subs))
  /\ last.out.msgs = IF accepted THEN <<>> ELSE <<header>> \o SubMsgs(Len(Self.subs))

OneOfHeader ==
  IF Matching = {} THEN "none of the provided schemas is valid"
  ELSE "more than one schema is valid"

\* C5: oneOf evaluates every sub-schema; its result is empty iff exactly one
\* sub-schema returns the empty list, and otherwise a header ("none of the
\* provided schemas is valid" for no match, "more than one schema is valid" for
\* two or more) followed by all the sub-schemas' lists in declaration order.
C5_OneOfExactlyOne ==
  Validated("oneOf") => Combines(Cardinality(Matching) = 1, OneOfHeader)

C5_UnlessSubAborts ==
  (Validated("oneOf") /\ ~SubAborts) => Combines(Cardinality(Matching) = 1, OneOfHeader)

\* A sub-schema of a oneOf is an object schema given null, and the oneOf aborts.
C5_Witness == Validated("oneOf") /\ SubAborts /\ last.out.threw

\* C6: anyOf returns the empty list iff at least one sub-schema returns the empty
\* list, and otherwise "all schemas are invalid" followed by every sub-schema's
\* list in declaration order, no sibling skipped.
C6_AnyOfAtLeastOne ==
  Validated("anyOf") => Combines(Matching # {}, "all schemas are invalid")

C6_UnlessSubAborts ==
  (Validated("anyOf") /\ ~SubAborts) => Combines(Matching # {}, "all schemas are invalid")

\* The first sub-schema of an anyOf returns messages, the second is an object
\* schema given null, and the anyOf aborts.
C6_Witness ==
  /\ Validated("anyOf") /\ Len(Self.subs) = 2
  /\ ~SubOutcome(1).threw /\ SubOutcome(1).msgs # <<>>
  /\ SubOutcome(2).threw
  /\ Matching = {}
  /\ last.out.threw

\* C8: allOf returns the empty list iff every sub-schema returns the empty list
\* (so the empty allOf accepts everything), and otherwise "some of the provided
\* schemas are invalid" followed by all the sub-schemas' lists in declaration
\* order, those after the first failing one included.
C8_AllOfEvery ==
  Validated("allOf") =>
    Combines(Matching = 1..Len(Self.subs), "some of the provided schemas are invalid")

C8_UnlessSubAborts ==
  (Validated("allOf") /\ ~SubAborts) =>
    Combines(Matching = 1..Len(Self.subs), "some of the provided schemas are invalid")

\* An allOf whose first sub-schema returns messages and whose second is an object
\* schema given null: it aborts.
C8_Witness ==
  /\ Validated("allOf") /\ Len(Self.subs) = 2
  /\ ~SubOutcome(1).threw /\ SubOutcome(1).msgs # <<>>
  /\ SubOutcome(2).threw
  /\ last.out.threw

\* A validation that returned messages.
Rejects(out) == ~out.threw /\ out.msgs # <<>>

\* C7: not(base, excluded) returns the empty list iff base returns the empty list
\* and excluded returns a non-empty one; if base fails the result is "base schema
\* is invalid" followed by base's list, whatever excluded returns; if both pass it
\* is the single message "value must not match the excluded schema".
C7_NotBaseAndExcluded ==
  Validated("not") =>
    /\ ~last.out.threw
    /\ (last.out.msgs = <<>>) <=> (Accepts(SubOutcome(1)) /\ Rejects(SubOutcome(2)))
    /\ Rejects(SubOutcome(1)) =>
         last.out.msgs = <<"base schema is invalid">> \o SubOutcome(1).msgs
    /\ (Accepts(SubOutcome(1)) /\ Accepts(SubOutcome(2))) =>
         last.out.msgs = <<"value must not match the excluded schema">>

C7_UnlessSubAborts ==
  (Validated("not") /\ ~SubAborts) =>
    /\ ~last.out.threw
    /\ (last.out.msgs = <<>>) <=> (Accepts(SubOutcome(1)) /\ Rejects(SubOutcome(2)))
    /\ Rejects(SubOutcome(1)) =>
         last.out.msgs = <<"base schema is invalid">> \o SubOutcome(1).msgs
    /\ (Accepts(SubOutcome(1)) /\ Accepts(SubOutcome(2))) =>
         last.out.msgs = <<"value must not match the excluded schema">>

\* The base fails, the excluded schema is an object schema given null, and the
\* validation aborts.
C7_Witness ==
  /\ Validated("not")
  /\ Rejects(SubOutcome(1)) /\ SubOutcome(2).threw
  /\ last.out.threw

\* The input has a key that is no key of the shape.
HasExtraKeys == PlainObjectInput /\ DOMAIN last.arg.o \ ShapeKeys(Self) # {}

\* C9: an object schema that is not loose rejects a non-array object input with a
\* key absent from the shape: when the required keys are present and the values of
\* the shape keys validate, the result is ["unknown keys not allowed"].
C9_UnknownKeysRejected ==
  (Validated("object") /\ ~Self.loose /\ HasExtraKeys
     /\ MissingKeys = {} /\ PresentKeysValidate)
    => last.out.msgs = <<"unknown keys not allowed">>

\* An object schema that is not loose accepts an input with a key outside a shape
\* that is not empty.
C9_Witness ==
  /\ Validated("object") /\ ~Self.loose /\ HasExtraKeys
  /\ Self.shape # <<>> /\ MissingKeys = {} /\ PresentKeysValidate
  /\ Accepts(last.out)

\* No validation of an object schema reports unknown keys.
C9_NeverReported ==
  Validated("object") => last.out.msgs # <<"unknown keys not allowed">>

\* The loose accessor was read: the instances there were are as they were, and
\* the one returned is a loose object schema over the receiver's shape.
LooseRead ==
  last'.op = "loose" =>
    /\ \A r \in DOMAIN heap : heap'[r] = heap[r]
    /\ heap'[Len(heap')].loose
    /\ heap'[Len(heap')].shape = heap'[last'.recv].shape

InnerOutcome == Validate(heap, Self.inner, last.arg)

\* The wrapper returned without calling the wrapped schema.
ShortCircuits == Accepts(last.out) /\ last.out.log = Entered(last.recv)

\* The wrapper ended as the wrapped schema did on the same input, and did nothing
\* but call it.
Delegates ==
  /\ last.out.threw = InnerOutcome.threw
  /\ last.out.msgs = InnerOutcome.msgs
  /\ last.out.log = Entered(last.recv) \o InnerOutcome.log

\* C11: Optional(inner) returns [] without calling inner when the input is
\* undefined, and on every other input, null included, does exactly what inner
\* does with it, all its messages unmodified; Nullable(inner) returns [] without
\* calling inner when the input is null, and on every other input, undefined
\* included, does exactly what inner does with it.
C11_WrappersDelegate ==
  /\ Validated("optional") =>
        IF last.arg = Undefined THEN ShortCircuits ELSE Delegates
  /\ Validated("nullable") =>
        IF last.arg = Null THEN ShortCircuits ELSE Delegates

\* An Optional wrapper given null returns the several messages of the schema it
\* wraps.
C11_Witness ==
  /\ Validated("optional") /\ last.arg = Null
  /\ Len(InnerOutcome.msgs) >= 2
  /\ last.out.msgs = InnerOutcome.msgs

(***************************************************************************)
(* Arrays (C12 to C14)                                                     *)
(***************************************************************************)
ArrayInput == IsArray(last.arg)

\* The schema that element n of the input is given to.
ItemSchema(n) == IF Self.isTuple THEN Self.subs[n] ELSE Self.elem

\* What that schema does with element n.
ItemOutcome(n) == Validate(heap, ItemSchema(n), last.arg.items[n])

\* The positions whose element fails its schema.
FailingItems == {n \in 1..Len(last.arg.items) : ~Accepts(ItemOutcome(n))}

RECURSIVE ItemLogs(_)
\* What the validation of the elements 1..n evaluates, in order.
ItemLogs(n) == IF n = 0 THEN <<>> ELSE ItemLogs(n - 1) \o ItemOutcome(n).log

\* The result is the message list of element n's schema as it is, and nothing
\* was evaluated but the elements up to n.
ReportsItem(n) ==
  /\ ~last.out.threw
  /\ last.out.msgs = ItemOutcome(n).msgs
  /\ last.out.log = Entered(last.recv) \o ItemLogs(n)

\* The array schema returned the one message msg and validated no element.
RejectsUnread(msg) ==
  ~last.out.threw /\ last.out.msgs = <<msg>> /\ last.out.log = Entered(last.recv)

\* C12: a tuple schema given an array whose length is not the number of its
\* schemas returns exactly ["invalid array length"] and validates no element;
\* given one of that length it validates the elements position by position, each
\* against the schema at its position, and at the first position that fails the
\* result is that schema's message list unmodified, the later positions not being
\* evaluated.
C12_TupleByPosition ==
  (Validated("array") /\ Self.isTuple /\ ArrayInput) =>
    IF Len(last.arg.items) # Len(Self.subs) THEN RejectsUnread("invalid array length")
    ELSE FailingItems # {} => ReportsItem(First(FailingItems))

\* C12, for the tuples whose first failing position returns its messages.
C12_UnlessItemAborts ==
  (Validated("array") /\ Self.isTuple /\ ArrayInput) =>
    IF Len(last.arg.items) # Len(Self.subs) THEN RejectsUnread("invalid array length")
    ELSE (FailingItems # {} /\ ~ItemOutcome(First(FailingItems)).threw)
           => ReportsItem(First(FailingItems))

\* A tuple of the length of its input whose first failing position is the second,
\* and whose schema there aborts: so does the validation of the tuple.
C12_Witness ==
  /\ Validated("array") /\ Self.isTuple /\ ArrayInput
  /\ Len(last.arg.items) = Len(Self.subs)
  /\ FailingItems = {2} /\ ItemOutcome(2).threw
  /\ last.out.threw

\* A tuple whose second position fails returns that position's message.
C12_SecondPosition ==
  /\ Validated("array") /\ Self.isTuple /\ ArrayInput
  /\ Len(last.arg.items) = Len(Self.subs)
  /\ FailingItems = {2} /\ ReportsItem(2) /\ Len(last.out.msgs) = 1

\* C13: a homogeneous array schema validates the elements of an array input in
\* index order against its element schema; the messages of the first failing
\* element are the result, the later elements are not evaluated, and neither are
\* uniqueness, the whitelist, the blacklist and the rules of the chain.
C13_ElementsInOrder ==
  (Validated("array") /\ ~Self.isTuple /\ ArrayInput /\ FailingItems # {})
    => ReportsItem(First(FailingItems))

\* C13, for the arrays whose first failing element returns its messages.
C13_UnlessItemAborts ==
  (Validated("array") /\ ~Self.isTuple /\ ArrayInput /\ FailingItems # {}
     /\ ~ItemOutcome(First(FailingItems)).threw)
    => ReportsItem(First(FailingItems))

\* An array of object schemas with a null element: the element schema aborts,
\* and so does the validation of the array.
C13_Witness ==
  /\ Validated("array") /\ ~Self.isTuple /\ ArrayInput
  /\ FailingItems # {} /\ ItemOutcome(First(FailingItems)).threw
  /\ last.out.threw

\* An array with unique() whose two elements are equal and fail the element
\* schema returns the element's message.
C13_BeforeDuplicates ==
  /\ Validated("array") /\ ~Self.isTuple /\ ArrayInput
  /\ ~Self.allowDuplicates /\ DistinctCount(last.arg.items) < Len(last.arg.items)
  /\ FailingItems # {} /\ ReportsItem(1)

\* The elements of an array input were validated, and each passed.
ItemsPass ==
  /\ Validated("array") /\ ArrayInput
  /\ Self.isTuple => Len(last.arg.items) = Len(Self.subs)
  /\ FailingItems = {}

\* Two elements of the input are equal.
HasDuplicates ==
  \E i, j \in 1..Len(last.arg.items) :
    i < j /\ SameValueZero(last.arg.items[i], last.arg.items[j])

\* An element is outside the whitelist, or on the blacklist.
HasDisallowed ==
  \E i \in 1..Len(last.arg.items) :
    \/ Self.whitelist.on /\ ~ListIncludes(Self.whitelist.vals, last.arg.items[i])
    \/ Self.blacklist.on /\ ListIncludes(Self.blacklist.vals, last.arg.items[i])

\* unique() was called on the validated schema, at some place of the chain.
UniqueActive == \E i \in 1..Len(Self.rules) : Self.rules[i].op = "uniqueItems"

\* C14: once the elements of an array input pass, the result is that of the first
\* failing check in the order uniqueness, whitelist, blacklist, rules of the
\* chain in chain-call order: ["duplicates not allowed"] whenever unique() was
\* called, wherever in the chain, and two elements are equal; the message of the
\* first failing rule, "shall contain at least n items" for min(n), when no
\* element is a duplicate or disallowed; [] when nothing fails.
C14_ChecksInOrder ==
  ItemsPass =>
    /\ ~last.out.threw
    /\ last.out.msgs =
         IF UniqueActive /\ HasDuplicates THEN <<"duplicates not allowed">>
         ELSE IF HasDisallowed THEN <<"some of provided values are not allowed">>
         ELSE IF FailingRules # {}
              THEN <<RuleEval(Self, Self.rules[First(FailingRules)], last.arg).msg>>
              ELSE <<>>

\* max(1).unique() given two equal elements: the rule of max fails and comes
\* first in the chain, and the result is the duplicates message.
C14_Witness ==
  /\ ItemsPass /\ HasDuplicates
  /\ Len(Self.rules) = 2
  /\ Self.rules[1].op = "maxItems" /\ Self.rules[2].op = "uniqueItems"
  /\ 1 \in FailingRules
  /\ last.out.msgs = <<"duplicates not allowed">>

\* min(3).unique() given one element: ["shall contain at least 3 items"].
C14_TooFew ==
  /\ ItemsPass /\ ~HasDuplicates /\ UniqueActive
  /\ Self.rules[1].op = "minItems"
  /\ last.out.msgs = <<"shall contain at least 3 items">>

(***************************************************************************)
(* The shared builder and the export (C15, C16)                            *)
(***************************************************************************)
\* What the held schema, heap[1], does with x under the rules it has now.
LeafSays(x) == CoreValidate(heap, 1, x)

\* The elements of the input that the held schema rejects.
LeafFails == {n \in 1..Len(last.arg.items) : LeafSays(last.arg.items[n]).msgs # <<>>}

\* The validation through a schema that holds heap[1] applied the rules heap[1]
\* has now.
SeenThrough ==
  /\ Validated("optional") /\ last.arg # Undefined =>
        last.out.msgs = LeafSays(last.arg).msgs
  /\ Validated("object") /\ PlainObjectInput /\ "a" \in DOMAIN last.arg.o =>
        last.out.msgs = KeyPrefixed("a", LeafSays(last.arg.o["a"]).msgs)
  /\ Validated("array") /\ ArrayInput /\ LeafFails # {} =>
        last.out.msgs = LeafSays(last.arg.items[First(LeafFails)]).msgs
  /\ Validated("oneOf") /\ LeafSays(last.arg).msgs # <<>> =>
        last.out.msgs = <<"none of the provided schemas is valid">> \o LeafSays(last.arg).msgs

\* A chain call: it returned an instance there was, its receiver, whose rule list
\* it extended, and it left every other instance, the holders of the receiver
\* among them, as it was.
ChainedInPlace ==
  last'.op \notin {"validate", "export"} =>
    /\ Len(heap') = Len(heap)
    /\ last'.recv \in DOMAIN heap
    /\ \A e \in DOMAIN heap \ {last'.recv} : heap'[e] = heap[e]
    /\ SubSeq(heap'[last'.recv].rules, 1, Len(heap[last'.recv].rules))
         = heap[last'.recv].rules

C16_ExportIdempotent ==
  /\ [](last.op = "export" => last.exported = ExportMetadata(heap, last.recv))
  /\ [][last'.op = "export" => heap' = heap]_vars

\* The export of an object schema whose child was chained after it was built:
\* the map holds the child's descriptor as it is now.
C16_Witness ==
  /\ last.op = "export" /\ Self.kind = "object"
  /\ "minimum" \in DOMAIN heap[1].desc
  /\ last.exported["shape"]["a"] = heap[1].desc
  /\ "shape" \notin DOMAIN Self.desc

(***************************************************************************)
(* The error of a misuse at construction (C17)                             *)
(***************************************************************************)
\* The bound d has no date: text of no date form, or an invalid Date.
Unparsable(d) == IF d.t = "date" THEN d.time.sp = "NaN" ELSE NewDate(d.s).time.sp = "NaN"

\* The last call was a bound modifier of a date schema.
BoundCall == last.op \in {"min", "max", "between"} /\ Self.kind = "date"

\* The typed error of an invalid configuration was raised to the caller.
RaisedInvalid ==
  /\ last.raised # Undefined
  /\ last.raised.name = "ValidationError" /\ last.raised.code = 400

C17_ValidateReturns ==
  /\ Validated("date") /\ Self.minDate # Undefined
  /\ last.arg = Str("nope")
  /\ last.out.msgs = <<"nope is not a valid date">>
  /\ last.raised = Undefined

(***************************************************************************)
(* Validation as a read (C18, C19)                                         *)
(***************************************************************************)
\* Some rule of some schema tests a RegExp that has the g flag.
HasGlobalPattern ==
  \E r \in DOMAIN heap : \E i \in 1..Len(heap[r].rules) :
    heap[r].rules[i].op = "pattern" /\ RegExp(heap[r].rules[i].s).flags = "g"

\* A validate call left every schema as it was, and the validation of the input
\* of the call before it, by the same schema, returned the list that call did.
ValidateReads ==
  last'.op = "validate" =>
    /\ heap' = heap
    /\ (last.op = "validate" /\ last'.recv = last.recv /\ last'.arg = last.arg)
         => last'.out.msgs = last.out.msgs

\* C18: a validate call has no effect on the schema: it leaves the rule list,
\* the descriptor and every flag of the schema and of its children as they were,
\* so that the validation of the same input twice, with no chain call in
\* between, returns the same list both times.
C18_ValidationIsPure == [][ValidateReads]_vars

\* C18, for the schemas no rule of which tests a RegExp with the g flag.
C18_UnlessGlobalPattern == [][~HasGlobalPattern => ValidateReads]_vars

\* A string schema with pattern(/foo/g) rejects an input that has "foo" in it:
\* the RegExp of its rule was left at the end of the match of the call before.
C18_Witness ==
  /\ Validated("string") /\ last.arg \in {Str("foo"), Str("foofoo"), Str("a foo")}
  /\ Len(Self.rules) = 3 /\ Self.rules[3].op = "pattern" /\ Self.rules[3].n = 0
  /\ last.out.msgs = <<"should match foo">>

\* The schemas as the chain calls left them: every RegExp at lastIndex 0.
Pristine ==
  [r \in DOMAIN heap |->
     [heap[r] EXCEPT
        !.rules = [i \in 1..Len(heap[r].rules) |->
                     IF heap[r].rules[i].op = "pattern"
                     THEN [heap[r].rules[i] EXCEPT !.n = 0]
                     ELSE heap[r].rules[i]]]]

\* The validation returned what it returns when it runs alone on the schema as
\* the chain calls left it.
AsAlone ==
  LET alone == Validate(Pristine, last.recv, last.arg)
  IN last.out.threw = alone.threw /\ last.out.msgs = alone.msgs

\* C19: whatever validate calls went before it, a validate call returns the
\* result it returns when it runs alone on the schema as the chain calls left
\* it.
C19_ValidateCallsIndependent == last.op = "validate" => AsAlone

\* C19, for the schemas no rule of which tests a RegExp with the g flag.
C19_UnlessGlobalPattern == (last.op = "validate" /\ ~HasGlobalPattern) => AsAlone

\* An array of strings with pattern(/foo/g) rejects ["foo"], which it accepts
\* when the call runs alone.
C19_Witness ==
  /\ Validated("array") /\ last.arg = Arr(<<Str("foo")>>)
  /\ HasGlobalPattern
  /\ last.out.msgs = <<"should match foo">>
  /\ Validate(Pristine, last.recv, last.arg).msgs = <<>>

(***************************************************************************)
(* The required keys and the values of the present ones (C20)              *)
(***************************************************************************)
\* The list for the absence of shape key n.
NotFound(n) == <<"key \"" \o Self.shape[n].key \o "\" not found">>

\* C20: the object validator scans the required keys before it validates the
\* value of any key: whenever a shape key that is not Optional is absent from a
\* non-array object input, a validation that returns returns the "not found"
\* message of the first absent key, even if the value of another, present key
\* fails its schema.
C20_RequiredKeysBeforeValues ==
  (Validated("object") /\ PlainObjectInput /\ MissingKeys # {} /\ ~last.out.threw)
    => last.out.msgs = NotFound(First(MissingKeys))

\* C20, when no key declared before the first absent one has a failing value.
C20_UnlessEarlierValueFails ==
  (Validated("object") /\ PlainObjectInput /\ MissingKeys # {}
     /\ \A n \in FailingKeys : n > First(MissingKeys))
    => (~last.out.threw /\ last.out.msgs = NotFound(First(MissingKeys)))

\* Key "b" is required and absent, the value of key "a", declared before it,
\* fails its schema with messages, and the result is the list of key "a".
C20_Witness ==
  /\ Validated("object") /\ PlainObjectInput
  /\ MissingKeys = {2} /\ FailingKeys = {1} /\ ~ChildOutcome(1).threw
  /\ last.out.msgs = KeyPrefixed(Self.shape[1].key, ChildOutcome(1).msgs)

\* The absent key is declared first and the failing value belongs to a later
\* key: the result is the "not found" message.
C20_AbsentDeclaredFirst ==
  /\ Validated("object") /\ PlainObjectInput
  /\ MissingKeys = {1} /\ FailingKeys = {2}
  /\ last.out.msgs = NotFound(1)

(***************************************************************************)
(* The item count and uniqueness (C21)                                     *)
(***************************************************************************)
\* The rules of min and max among the failing rules of the validated schema.
FailingCounts == {i \in FailingRules : Self.rules[i].op \in {"minItems", "maxItems"}}

\* C21: for an array schema with a count constraint and unique(), the count check
\* comes before the uniqueness check: an input whose elements pass, that fails
\* the count rule and has two equal elements, gets the message of the count
\* rule, "shall contain at least n items" for min(n).
C21_CountBeforeUnique ==
  (ItemsPass /\ UniqueActive /\ HasDuplicates /\ FailingCounts # {})
    => last.out.msgs =
         <<RuleEval(Self, Self.rules[First(FailingCounts)], last.arg).msg>>

\* The same, for an input no two elements of which are equal and none of which
\* is disallowed.
C21_UnlessDuplicates ==
  (ItemsPass /\ UniqueActive /\ ~HasDuplicates /\ ~HasDisallowed /\ FailingCounts # {}
     /\ First(FailingCounts) = First(FailingRules))
    => last.out.msgs =
         <<RuleEval(Self, Self.rules[First(FailingCounts)], last.arg).msg>>

\* array(number).min(3).unique() given two equal elements that pass: the result
\* is the duplicates message, not that of min.
C21_Witness ==
  /\ ItemsPass /\ HasDuplicates /\ Len(last.arg.items) = 2
  /\ Len(Self.rules) = 2
  /\ Self.rules[1].op = "minItems" /\ Self.rules[2].op = "uniqueItems"
  /\ last.out.msgs = <<"duplicates not allowed">>

\* unique().min(3) given one element: the result is the message of min.
C21_CountAlone ==
  /\ ItemsPass /\ UniqueActive /\ Len(last.arg.items) = 1
  /\ last.out.msgs = <<"shall contain at least 3 items">>

(***************************************************************************)
(* Inputs that satisfy every rule (C22)                                    *)
(***************************************************************************)
\* C22: whenever the input satisfies every rule registered on the validated
\* schema, the validation returns the empty list; so for a date schema given a
\* valid Date instance within its bounds, or with no bounds.
C22_ValidInputAccepted ==
  (last.op = "validate" /\ FailingRules = {}) => Accepts(last.out)

\* What a date schema returns for a Date instance, whatever its bounds.
C22_DateInstanceRejected ==
  (Validated("date") /\ last.arg.t = "date")
    => (~last.out.threw /\ last.out.msgs = <<"NaN is not a valid date">>)

\* The same, for the inputs that are strings: a text that parses to a date within
\* the bounds is accepted.
C22_DateTextAccepted ==
  (Validated("date") /\ last.arg.t = "string" /\ ToDate(last.arg) # Null
     /\ FailingRules \ {1} = {})
    => Accepts(last.out)

\* A date schema with a minimum and a maximum is given a valid Date instance
\* between them: every rule passes, and the result is a message.
C22_Witness ==
  /\ Validated("date") /\ last.arg.t = "date" /\ last.arg.time.sp = "fin"
  /\ Self.minDate # Undefined /\ Self.maxDate # Undefined
  /\ FailingRules = {}
  /\ last.out.msgs = <<"NaN is not a valid date">>

\* A date schema with no bounds accepts the text of a date.
C22_TextWitness ==
  /\ Validated("date") /\ last.arg = Str("2024-01-01")
  /\ Len(Self.rules) = 1 /\ Accepts(last.out)

(***************************************************************************)
(* A bound modifier that raises (C27)                                      *)
(***************************************************************************)
\* The call that is made raises the error of a bound that is not a date.
Raises(ops) == last'.op \in ops /\ last'.raised # Undefined

\* C27: a call of min, max or between that raises the error of an invalid bound
\* leaves the schema as it was: its rule list, its descriptor and its stored
\* bounds.
C27_RaisingCallLeavesSchema == [][Raises({"min", "max", "between"}) => heap' = heap]_vars

\* C27, for min and max, and for a between that raises for its first bound.
C27_UnlessSecondBoundRaises ==
  [][(\/ Raises({"min", "max"})
      \/ Raises({"between"}) /\ last'.raised.message = "Invalid min date")
       => heap' = heap]_vars

\* between(min, max) with a min that is a date and a max that is not, on a schema
\* that had no bound: the call raised and the schema has the minimum, in its
\* bounds, in its descriptor and in its rules.
C27_Witness ==
  /\ last.op = "between" /\ last.raised = ValidationError("Invalid max date")
  /\ Self.minDate = ToDate(last.arg.items[1]) /\ Self.maxDate = Undefined
  /\ Len(Self.rules) = 2 /\ Self.rules[2].op = "minDate"
  /\ "minimum" \in DOMAIN Self.desc

(***************************************************************************)
(* Rules and descriptor in lock step (C23)                                 *)
(***************************************************************************)
\* The step is the first chain call on a primitive schema: its receiver is as
\* the constructor left it.
ChainStep ==
  /\ last'.op \notin {"validate", "boolean", "number", "string"}
  /\ last'.recv \in DOMAIN heap
  /\ heap[last'.recv] \in {BooleanSchema, NumberSchema, StringSchema}

\* The call pushed a rule; it changed the flag the rule of the constructor reads;
\* it changed the descriptor.
Pushed == Len(heap'[last'.recv].rules) > Len(heap[last'.recv].rules)

Flagged == heap'[last'.recv].canBeEmpty # heap[last'.recv].canBeEmpty

Recorded == heap'[last'.recv].desc # heap[last'.recv].desc

\* The modifiers of StringSchema that make no call of $metadata.
Unrecorded == {"empty", "trim", "lowercase", "uppercase"}

\* C23: every chain call that adds or changes a validation constraint both
\* pushes a rule and records the fact in the descriptor: none changes what the
\* validation does and leaves the descriptor as it was.  Stated of the first
\* chain call on a schema, where a fact recorded is an entry that changes.
C23_LockStep == [][(ChainStep /\ (Pushed \/ Flagged)) => (Pushed /\ Recorded)]_vars

\* C23, for the modifiers other than empty, trim, lowercase and uppercase: each
\* pushes a rule and changes the descriptor, but format, which pushes none.
C23_UnlessUnrecorded ==
  [][(ChainStep /\ last'.op \notin Unrecorded)
       => (Recorded /\ ~Flagged /\ (Pushed <=> last'.op # "format"))]_vars

\* A string schema after trim(): the rule is in the chain, the descriptor is that
\* of the constructor.
C23_Witness ==
  /\ last.op = "trim" /\ Len(Self.rules) = 3 /\ Self.rules[3].op = "trim"
  /\ Self.desc = StringSchema.desc

\* A string schema after empty: no rule pushed, the descriptor that of the
\* constructor, and the empty string is accepted.
C23_EmptyFlag ==
  /\ last.op = "empty" /\ Self.rules = StringSchema.rules
  /\ Self.desc = StringSchema.desc
  /\ Validate(heap, last.recv, Str("")).msgs = <<>>
  /\ Validate(<<StringSchema>>, 1, Str("")).msgs # <<>>

(***************************************************************************)
(* The wrappers' descriptors (C24)                                         *)
(***************************************************************************)
\* The last call read .optional or .nullable: the wrapper it returned, and the
\* receiver.
Wrapped == last.op \in {"optional", "nullable"}

Wrapper == heap[last.recv]

Receiver == heap[Wrapper.inner]

\* C24: the wrapper that .optional or .nullable returns is a new instance whose
\* exported descriptor has every key of the receiver's exported descriptor and
\* the marker optional = true or nullable = true; so for every kind of receiver,
\* object and array schemas included.
C24_WrapperExportsReceiver ==
  Wrapped =>
    /\ last.recv # Wrapper.inner
    /\ ExportMetadata(heap, last.recv)[last.op] = TRUE
    /\ DOMAIN ExportMetadata(heap, Wrapper.inner) \subseteq DOMAIN ExportMetadata(heap, last.recv)

\* C24, for a receiver that is no object schema.
C24_UnlessObject ==
  (Wrapped /\ Receiver.kind # "object") =>
    /\ last.recv # Wrapper.inner
    /\ ExportMetadata(heap, last.recv)[last.op] = TRUE
    /\ DOMAIN ExportMetadata(heap, Wrapper.inner) \subseteq DOMAIN ExportMetadata(heap, last.recv)

\* What the wrapper exports: the descriptor the receiver stores, and the marker.
C24_WrapperCopiesStored ==
  Wrapped => ExportMetadata(heap, last.recv) = (last.op :> TRUE) @@ Receiver.desc

\* Reading .optional or .nullable leaves every schema there was as it was.
C24_ReceiverUnchanged ==
  [][last'.op \in {"optional", "nullable"}
       => (Len(heap') = Len(heap) + 1 /\ SubSeq(heap', 1, Len(heap)) = heap)]_vars

\* The wrapper of an object schema of one key: the receiver exports its shape,
\* the wrapper does not.
C24_Witness ==
  /\ Wrapped /\ Receiver.kind = "object" /\ Len(Receiver.shape) = 1
  /\ "shape" \in DOMAIN ExportMetadata(heap, Wrapper.inner)
  /\ "shape" \notin DOMAIN ExportMetadata(heap, last.recv)

\* The wrapper of an array schema exports the items of the array.
C24_ArrayWitness ==
  /\ Wrapped /\ Receiver.kind = "array"
  /\ "items" \in DOMAIN ExportMetadata(heap, last.recv)

(***************************************************************************)
(* The loose copy (C25)                                                    *)
(***************************************************************************)
\* The instance the loose getter returned, and its receiver.
LooseCopy == heap[Len(heap)]

Original == heap[last.recv]

\* C25: the loose getter returns a new object schema over the same shape with a
\* snapshot of the receiver's descriptor: the metadata the receiver had is in
\* the export of the new instance, and the two differ by the loose flag only.
C25_LooseKeepsDescriptor ==
  last.op = "loose" =>
    /\ Len(heap) # last.recv
    /\ LooseCopy = [Original EXCEPT !.loose = TRUE]
    /\ ExportMetadata(heap, Len(heap)) = ExportMetadata(heap, last.recv)

\* What the getter returns: the shape of the receiver, the flag, and the
\* descriptor of a new object schema; the receiver's when it has no metadata.
C25_LooseKeepsShape ==
  last.op = "loose" =>
    /\ Len(heap) # last.recv
    /\ LooseCopy.shape = Original.shape /\ LooseCopy.loose
    /\ LooseCopy.desc = ObjectSchema(<<>>).desc
    /\ Original.desc = ObjectSchema(<<>>).desc => LooseCopy = [Original EXCEPT !.loose = TRUE]

\* A named, deprecated object schema and its loose copy, whose export has
\* neither entry.
C25_Witness ==
  /\ last.op = "loose"
  /\ {"name", "deprecated"} \subseteq DOMAIN ExportMetadata(heap, last.recv)
  /\ {"name", "deprecated"} \cap DOMAIN ExportMetadata(heap, Len(heap)) = {}

(***************************************************************************)
(* The children in an exported descriptor (C26)                            *)
(***************************************************************************)
\* The last call exported a schema of this kind.
Exported(kind) == last.op = "export" /\ heap[last.recv].kind = kind

\* The entry of each sub-schema in the export of a oneOf is what the sub-schema
\* exports now.
SubsAsNow ==
  \A n \in 1..Len(Self.subs) : last.exported["oneOf"][n] = ExportMetadata(heap, Self.subs[n])

\* The same, for the children of an object schema and the element schema of an
\* array.
ChildrenAsNow ==
  /\ Exported("object") =>
        \A n \in 1..Len(Self.shape) :
          last.exported["shape"][Self.shape[n].key] = ExportMetadata(heap, Self.shape[n].ref)
  /\ Exported("array") => last.exported["items"] = ExportMetadata(heap, Self.elem)

\* C26: a sub-schema of a combinator that is chained further after the combinator
\* was built shows its added constraint in the combinator's exported descriptor,
\* as the children of object and array schemas do.
C26_ExportFollowsChildren == ChildrenAsNow /\ (Exported("oneOf") => SubsAsNow)

\* C26, for the object and the array.
C26_UnlessCombinator == ChildrenAsNow

\* The export of the oneOf over a number schema that was chained since: its
\* entry is the descriptor the number schema had when the oneOf was built, and
\* the oneOf validates by the rules the number schema has now.
C26_Witness ==
  /\ Exported("oneOf")
  /\ last.exported["oneOf"][1] = NumberSchema.desc
  /\ ExportMetadata(heap, 1) # NumberSchema.desc
  /\ \E v \in {Int2(2), Num(5)} :
       Validate(heap, last.recv, v).msgs # Validate(AliasHeap, last.recv, v).msgs

\* The export of the object over the same schema has its descriptor of now.
C26_ObjectWitness ==
  /\ Exported("object")
  /\ ExportMetadata(heap, 1) # NumberSchema.desc
  /\ last.exported["shape"]["a"] = ExportMetadata(heap, 1)

(***************************************************************************)
(* Absent keys and the wrappers (C28)                                      *)
(***************************************************************************)
\* The schema of shape key n of the validated object schema.
KeySchema(n) == heap[Self.shape[n].ref]

\* The validation reported shape key n as not found although the schema of the
\* key accepts undefined.
WronglyRequired(n) ==
  /\ last.out.msgs = NotFound(n)
  /\ Accepts(Validate(heap, Self.shape[n].ref, Undefined))

\* C28: a shape key may be absent whenever its schema accepts undefined through
\* an Optional wrapper at any level, X.optional.nullable like X.optional and
\* X.nullable.optional: a key is reported as not found only if the validation of
\* undefined by its schema fails.
C28_AbsentKeyTolerated ==
  (Validated("object") /\ PlainObjectInput)
    => \A n \in 1..Len(Self.shape) : ~WronglyRequired(n)

\* C28, for the keys whose schema is not a Nullable wrapper.
C28_UnlessNullableOutermost ==
  (Validated("object") /\ PlainObjectInput)
    => \A n \in 1..Len(Self.shape) : KeySchema(n).kind # "nullable" => ~WronglyRequired(n)

\* object({ a: X.optional.nullable }) given {}: key "a" is reported as not found.
C28_Witness ==
  /\ Validated("object") /\ last.arg = EmptyObj /\ Len(Self.shape) = 1
  /\ KeySchema(1).kind = "nullable" /\ heap[KeySchema(1).inner].kind = "optional"
  /\ WronglyRequired(1)

\* object({ a: X.nullable.optional }) given {}: accepted.
C28_OptionalOutermost ==
  /\ Validated("object") /\ last.arg = EmptyObj /\ Len(Self.shape) = 1
  /\ KeySchema(1).kind = "optional" /\ heap[KeySchema(1).inner].kind = "nullable"
  /\ Accepts(last.out)

====
